---- MODULE Spec2Model ----
(***************************************************************************)
(* Model of the coding agent loop of strongdm/attractor (package           *)
(* agentloop): the Session orchestrator of session.go with its per-input   *)
(* loop, steering and follow-up queues, abort flag, context cancellation,  *)
(* Close, the turn history, the loop detector and the error classification *)
(* of the unified LLM client.                                              *)
(*                                                                         *)
(* Every critical section of session.go (one s.mu.Lock()/Unlock() pair)    *)
(* and every blocking call is one atomic step of the goroutine that runs   *)
(* Submit; the host's calls (Steer, FollowUp, Abort, Close, History,       *)
(* cancelling the context) interleave with those steps.                    *)
(***************************************************************************)
EXTENDS Integers, Sequences, FiniteSets, TLC

VARIABLES
    state,          \* Session.state
    history,        \* Session.history
    steeringQueue,  \* Session.steeringQueue
    followupQueue,  \* Session.followupQueue
    abortSignaled,  \* Session.abortSignaled
    config,         \* Session.config and the profile's capability flag
    emClosed,       \* EventEmitter.closed
    lastEmit,       \* last event kind each caller handed to EventEmitter.Emit
    pc,             \* position of each goroutine running Submit
    userInput,      \* processInput's userInput argument
    roundCount,     \* processInput's roundCount
    aborted,        \* processInput's local copy of abortSignaled
    messages,       \* drainSteering's local copy of the steering queue
    drainRet,       \* where drainSteering returns to
    request,        \* the messages of the request built for the Completer
    toolCalls,      \* response.ToolCallsFromResponse()
    results,        \* executeToolCalls' results array
    loopHit,        \* value of DetectLoop(historyCopy, loopWindow)
    ctxDone,        \* whether the ctx passed to Submit is cancelled
    ret,            \* what the last finished Submit call returned
    llmOutcome,     \* what the last Completer call of the running Submit returned
    llmCalls,       \* Completer calls started for the current input
    histAtCall,     \* len(history) when the current Completer call was started
    why,            \* why the loop of the current input was left
    limitsHit,      \* the limits that stopped the loop of an input of this Submit
    closePc,        \* position of the goroutine running Close
    snap,           \* the last slice returned by History()
    nHost,          \* calls made so far by the host
    nSubmit, nFollow, nSteer,   \* Submit, FollowUp and Steer calls among them
    nComplete,      \* Completer calls started so far
    lastOutput,     \* "output" of the last tool_call_end event handed to Emit
    emCh,           \* EventEmitter.ch: the events buffered in the channel
    emCap,          \* cap(EventEmitter.ch)
    emDelivered,    \* the events the host has received from Events()
    emCloses,       \* how many times close(e.ch) was executed
    emFault,        \* whether a send on the closed channel was executed
    emSeq,          \* events built by Emit so far
    emPc,           \* position of each goroutine inside Emit or EventEmitter.Close
    emMu,           \* the goroutine that holds EventEmitter.mu
    emCalls,        \* Emit and EventEmitter.Close calls started so far
    fnArgs,         \* the arguments of the function call under study
    fnResult,       \* what that call returned or handed on
    subAgents,      \* the SubAgentHandles created so far, in order of creation
    subRegistry,    \* the session whose manager the registry's subagent tools use
    subMaxDepth,    \* MaxSubagentDepth of the root session's configuration
    subWait,        \* the wait calls in progress: who waits for which subagent
    subRet,         \* what the last finished subagent tool call or Spawn returned
    subCalls,       \* Spawn calls and subagent tool calls made so far
    retry,          \* the locals of the Retry call in progress and the state of its ctx
    mu,             \* the goroutine that holds Session.mu
    muPc,           \* where each goroutine stands among the uses of Session.mu
    reg             \* the ToolRegistries: tools, RWMutexes, the calls in progress

mainVars == <<state, history, steeringQueue, followupQueue, abortSignaled, config,
              emClosed, lastEmit, pc, userInput, roundCount, aborted, messages,
              drainRet, request, toolCalls, results, loopHit, ctxDone, ret,
              llmOutcome, llmCalls, histAtCall, why, limitsHit, closePc, snap,
              nHost, nSubmit, nFollow, nSteer, nComplete>>

(* The channel of the event emitter and the payload of the events: the state
   the runs of the session leave alone. *)
emitterVars == <<emCh, emCap, emDelivered, emCloses, emFault, emSeq, emPc, emMu,
                 emCalls>>

(* The state of the function calls studied on their own and of the subagents:
   also left alone by the runs of the session. *)
fnVars == <<fnArgs, fnResult>>
subVars == <<subAgents, subRegistry, subMaxDepth, subWait, subRet, subCalls>>
libVars == <<retry, mu, muPc, reg>>
otherVars == <<fnVars, subVars, libVars>>

auxVars == <<lastOutput, emitterVars, otherVars>>

vars == <<mainVars, auxVars>>

sessVars == <<state, history, steeringQueue, followupQueue, abortSignaled>>
hostVars == <<nHost, nSubmit, nFollow, nSteer>>

-----------------------------------------------------------------------------
(* Bounds of the exploration. *)

MaxHostCalls == 4   \* calls the host makes on the session, of any kind
MaxCompletions == 2 \* Completer calls started in a run
MaxRawLen == 5      \* characters of an executor's raw output
MaxCharLimit == 4   \* largest configured character limit of a tool
MaxLineLimit == 3   \* largest configured line limit of a tool
MaxEmitterCalls == 5 \* Emit and EventEmitter.Close calls on one emitter
MaxBuffer == 2      \* largest buffer size given to NewEventEmitter
MaxSigs == 6        \* tool calls of a history given to DetectLoop
MaxWindow == 6      \* largest window given to DetectLoop
MaxEnviron == 3     \* entries of the process environment
MaxTimeoutMs == 6   \* largest maxTimeoutMs of a shell tool
MaxAgents == 2      \* subagent handles created in a run
MaxDepthConfig == 2 \* largest MaxSubagentDepth of the root session
MaxSubCalls == 3    \* Spawn calls and subagent tool calls in a run
MaxTurnsArg == 4    \* largest max_turns argument of a spawn_agent call
MaxPolicyRetries == 2 \* largest RetryPolicy.MaxRetries
MaxPolicyDelay == 1  \* largest RetryPolicy.MaxDelay, in seconds

Threads == {1}      \* goroutines of the host that call Submit
Closer == 0         \* the goroutine of the host that calls Close
Emitters == Threads \cup {Closer}


-----------------------------------------------------------------------------
(* Session states (session.go:15-20). *)

StateIdle == "idle"
StateProcessing == "processing"
StateAwaitingInput == "awaiting_input"
StateClosed == "closed"

(* Turn kinds and constructors (turn types of package agentloop). *)

TurnUser == "user"
TurnAssistant == "assistant"
TurnToolResults == "tool_results"
TurnSteering == "steering"

NewUserTurn(content) ==
    [Kind |-> TurnUser, Content |-> content, ToolCalls |-> <<>>, Results |-> <<>>]

NewAssistantTurn(content, tcs) ==
    [Kind |-> TurnAssistant, Content |-> content, ToolCalls |-> tcs, Results |-> <<>>]

NewToolResultsTurn(rs) ==
    [Kind |-> TurnToolResults, Content |-> "", ToolCalls |-> <<>>, Results |-> rs]

NewSteeringTurn(content) ==
    [Kind |-> TurnSteering, Content |-> content, ToolCalls |-> <<>>, Results |-> <<>>]

(* Texts: every Submit, FollowUp and Steer call passes its own text, numbered
   among the calls of its kind; the loop detector's warning starts with "Loop detected:". *)
SubmitText(n) == <<"input", n>>
FollowUpText(n) == <<"follow-up", n>>
SteerText(n) == <<"steer", n>>
AssistantText == <<"assistant text">>
LoopWarning == <<"Loop detected:">>

(* Error values of package unifiedllm (errors.go:22-57): the dynamic type and,
   for the types that embed ProviderError, the Retryable field. *)
Err(type, retryable) == [Type |-> type, Retryable |-> retryable]

ErrTypes ==
    {"ProviderError", "AuthenticationError", "AccessDeniedError", "NotFoundError",
     "InvalidRequestError", "RateLimitError", "ServerError", "ContentFilterError",
     "ContextLengthError", "QuotaExceededError", "RequestTimeoutError", "AbortError",
     "NetworkError", "StreamErrorType", "InvalidToolCallError",
     "NoObjectGeneratedError", "ConfigurationError", "other"}

(* IsRetryable (errors.go:103-140): a type switch on the dynamic type; only a
   bare *ProviderError is classified by its Retryable field. *)
IsRetryable(err) ==
    CASE err.Type = "ProviderError" -> err.Retryable
      [] err.Type \in {"AuthenticationError", "AccessDeniedError", "NotFoundError",
                       "InvalidRequestError", "ContextLengthError",
                       "QuotaExceededError", "ContentFilterError",
                       "ConfigurationError"} -> FALSE
      [] err.Type \in {"RateLimitError", "ServerError", "NetworkError",
                       "StreamErrorType", "RequestTimeoutError"} -> TRUE
      [] OTHER -> TRUE

(* The errors the Completer returns in the explored runs. A cancelled context
   surfaces through GollmAdapter.translateError's default branch as a
   *ProviderError with Retryable set (gollm_adapter.go:522-528). *)
CancelledErr == Err("ProviderError", TRUE)
CompleterErrors ==
    {Err("ProviderError", FALSE), Err("AuthenticationError", FALSE),
     Err("RateLimitError", TRUE), Err("ProviderError", TRUE)}

(* Tool calls of a response: id, name and arguments. *)
ToolCall(id, name, args) == [ID |-> id, Name |-> name, Arguments |-> args]

Registered == {"shell", "read_file", "grep"}   \* names the profile's ToolRegistry holds

(* The tool-call lists of the Completer's responses in the explored runs: none,
   one call whose executor fails, and two calls of which the second names no
   registered tool. *)
Responses ==
    {<<>>,
     <<ToolCall("c1", "read_file", "missing")>>,
     <<ToolCall("c1", "shell", "ls"), ToolCall("c2", "nosuch", "ls")>>}

(* What the registered executor returns for a call: an error for read_file
   of a missing file, output otherwise. *)
Executor(toolCall) == IF toolCall.Arguments = "missing" THEN "err" ELSE "ok"

(* The longest tool-call list of Responses. *)
MaxCalls == CHOOSE n \in 0..8 : /\ \E r \in Responses : Len(r) = n
                              /\ \A r \in Responses : Len(r) <= n

Pending == [ToolCallID |-> "-", Content |-> <<>>, IsError |-> FALSE]

-----------------------------------------------------------------------------
(* Truncation of tool output (truncation.go). A text is the sequence of its
   characters; a run of characters without a line break that fmt.Sprintf
   produces stands as one element. *)

NL == "\n"

TruncateHeadTail == "head_tail"
TruncateTail == "tail"

DefaultToolCharLimits ==
    ("read_file" :> 50000) @@ ("shell" :> 30000) @@ ("grep" :> 20000)
    @@ ("glob" :> 20000) @@ ("edit_file" :> 10000) @@ ("apply_patch" :> 10000)
    @@ ("write_file" :> 1000) @@ ("spawn_agent" :> 20000)

DefaultTruncationModes ==
    ("read_file" :> TruncateHeadTail) @@ ("shell" :> TruncateHeadTail)
    @@ ("grep" :> TruncateTail) @@ ("glob" :> TruncateTail)
    @@ ("edit_file" :> TruncateTail) @@ ("apply_patch" :> TruncateTail)
    @@ ("write_file" :> TruncateTail) @@ ("spawn_agent" :> TruncateHeadTail)

DefaultToolLineLimits == ("shell" :> 256) @@ ("grep" :> 200) @@ ("glob" :> 500)

(* The warnings of TruncateOutput and TruncateLines between their line
   breaks. *)
MiddleWarning(removed) ==
    "[WARNING: Tool output was truncated. " \o ToString(removed)
    \o " characters were removed from the middle. The full output is available in the event stream. ...]"

ShortMiddleWarning(removed) ==
    "[WARNING: Tool output was truncated. " \o ToString(removed)
    \o " characters were removed from the middle.]"

FirstWarning(removed) ==
    "[WARNING: Tool output was truncated. First " \o ToString(removed)
    \o " characters were removed. The full output is available in the event stream.]"

LinesOmitted(omitted) == "[... " \o ToString(omitted) \o " lines omitted ...]"

(* output[from:] and output[:to] of Go. *)
SliceFrom(output, from) == SubSeq(output, from + 1, Len(output))
SliceTo(output, to) == SubSeq(output, 1, to)

TruncateOutput(output, maxChars, mode) ==
    IF Len(output) <= maxChars THEN output
    ELSE LET half == maxChars \div 2
             removed == Len(output) - maxChars
         IN  CASE mode = TruncateHeadTail ->
                    SliceTo(output, half)
                    \o <<NL, NL, MiddleWarning(removed), NL, NL>>
                    \o SliceFrom(output, Len(output) - half)
               [] mode = TruncateTail ->
                    <<FirstWarning(removed), NL, NL>>
                    \o SliceFrom(output, Len(output) - maxChars)
               [] OTHER ->
                    SliceTo(output, half)
                    \o <<NL, NL, ShortMiddleWarning(removed), NL, NL>>
                    \o SliceFrom(output, Len(output) - half)

(* strings.Split(output, "\n") and strings.Join(lines, "\n"). *)
RECURSIVE Split(_)
Split(output) ==
    IF \A i \in 1..Len(output) : output[i] # NL THEN <<output>>
    ELSE LET k == CHOOSE i \in 1..Len(output) :
                     output[i] = NL /\ \A j \in 1..(i - 1) : output[j] # NL
         IN  <<SliceTo(output, k - 1)>> \o Split(SliceFrom(output, k))

RECURSIVE Join(_)
Join(lines) ==
    IF Len(lines) = 0 THEN <<>>
    ELSE IF Len(lines) = 1 THEN lines[1]
    ELSE lines[1] \o <<NL>> \o Join(Tail(lines))

TruncateLines(output, maxLines) ==
    LET lines == Split(output)
    IN  IF Len(lines) <= maxLines THEN output
        ELSE LET headCount == maxLines \div 2
                 tailCount == maxLines - headCount
                 omitted == Len(lines) - headCount - tailCount
             IN  Join(SliceTo(lines, headCount))
                 \o <<NL, LinesOmitted(omitted), NL>>
                 \o Join(SliceFrom(lines, Len(lines) - tailCount))

(* TruncateToolOutput: the configured limit of the tool, else its default,
   else 30000 characters; then the configured or default line limit. A nil
   map is a map without keys. *)
TruncateToolOutput(output, toolName, charLimits, lineLimits) ==
    LET maxChars == IF toolName \in DOMAIN charLimits THEN charLimits[toolName]
                    ELSE IF toolName \in DOMAIN DefaultToolCharLimits
                    THEN DefaultToolCharLimits[toolName]
                    ELSE 30000
        mode == IF toolName \in DOMAIN DefaultTruncationModes
                THEN DefaultTruncationModes[toolName]
                ELSE TruncateHeadTail
        result == TruncateOutput(output, maxChars, mode)
        configured == IF toolName \in DOMAIN lineLimits THEN lineLimits[toolName]
                      ELSE 0
        maxLines == IF configured # 0 THEN configured
                    ELSE IF toolName \in DOMAIN DefaultToolLineLimits
                    THEN DefaultToolLineLimits[toolName]
                    ELSE 0
    IN  IF maxLines > 0 THEN TruncateLines(result, maxLines) ELSE result

-----------------------------------------------------------------------------
(* Loop detection. *)

(* toolCallSignature: the name and a hash of the arguments; sha256 is taken
   to be collision free, so the hash stands for the arguments themselves. *)
toolCallSignature(name, arguments) == <<name, arguments>>

Reverse(s) == [i \in 1..Len(s) |-> s[Len(s) + 1 - i]]

(* The signatures of the calls of one Assistant turn, last call first, at most
   room of them (the inner loop of extractToolCallSignatures). *)
RECURSIVE TurnSigsBackward(_, _, _)
TurnSigsBackward(tcs, j, room) ==
    IF j < 1 \/ room <= 0 THEN <<>>
    ELSE <<toolCallSignature(tcs[j].Name, tcs[j].Arguments)>>
         \o TurnSigsBackward(tcs, j - 1, room - 1)

(* The outer loop of extractToolCallSignatures, from turn i backwards. *)
RECURSIVE SigsBackward(_, _, _)
SigsBackward(h, i, room) ==
    IF i < 1 \/ room <= 0 THEN <<>>
    ELSE LET here == IF h[i].Kind = TurnAssistant
                     THEN TurnSigsBackward(h[i].ToolCalls, Len(h[i].ToolCalls), room)
                     ELSE <<>>
         IN  here \o SigsBackward(h, i - 1, room - Len(here))

extractToolCallSignatures(h, count) == Reverse(SigsBackward(h, Len(h), count))

(* A detector that only knows patterns of length 1. *)
DetectLoop_PeriodOneOnly(h, windowSize) ==
    LET sigs == extractToolCallSignatures(h, windowSize)
    IN  IF Len(sigs) < windowSize THEN FALSE
        ELSE \A i \in 2..windowSize : sigs[i] = sigs[1]

DetectLoop(h, windowSize) ==
    LET sigs == extractToolCallSignatures(h, windowSize)
    IN  IF Len(sigs) < windowSize THEN FALSE
        ELSE \E patternLen \in 1..3 :
                /\ windowSize % patternLen = 0
                /\ \A i \in patternLen + 1 .. windowSize :
                       sigs[i] = sigs[((i - 1) % patternLen) + 1]

(* The run-time fault of DetectLoop (profile_gemini.go:337-342): the slice
   expression sigs[:patternLen] panics when patternLen exceeds the capacity
   of sigs, in the first iteration that gets there: no earlier pattern
   length has returned true.  A list of no signatures is the nil slice, of
   capacity 0.  (windowSize % patternLen is 0 for the same operands in Go
   and here.)  Where it panics DetectLoop returns nothing. *)
DetectLoopPanics(h, windowSize) ==
    LET sigs == extractToolCallSignatures(h, windowSize)
        Tried(patternLen) == windowSize % patternLen = 0
        Matches(patternLen) ==
            \A i \in patternLen + 1 .. windowSize :
                sigs[i] = sigs[((i - 1) % patternLen) + 1]
    IN  IF Len(sigs) < windowSize THEN FALSE
        ELSE \E patternLen \in 1..3 :
                /\ Tried(patternLen) /\ patternLen > Len(sigs)
                /\ \A q \in 1..(patternLen - 1) :
                       Tried(q) => (q <= Len(sigs) /\ ~Matches(q))

(* countTurns (session.go:479-489). *)
RECURSIVE CountFrom(_, _)
CountFrom(h, i) ==
    IF i > Len(h) THEN 0
    ELSE (IF h[i].Kind \in {TurnUser, TurnAssistant} THEN 1 ELSE 0) + CountFrom(h, i + 1)

countTurns(h) == CountFrom(h, 1)

(* ConvertHistoryToMessages: one message per turn, one per result of a
   ToolResults turn; a Steering turn becomes a user message. *)
ResultMessages(rs) ==
    [i \in 1..Len(rs) |->
        [Role |-> "tool", Text |-> rs[i].Content, ToolCalls |-> <<>>,
         ToolCallID |-> rs[i].ToolCallID]]

RECURSIVE ConvertFrom(_, _)
ConvertFrom(h, i) ==
    IF i > Len(h) THEN <<>>
    ELSE LET t == h[i]
             here ==
               CASE t.Kind = TurnUser ->
                      <<[Role |-> "user", Text |-> t.Content, ToolCalls |-> <<>>,
                         ToolCallID |-> ""]>>
                 [] t.Kind = TurnAssistant ->
                      <<[Role |-> "assistant", Text |-> t.Content,
                         ToolCalls |-> t.ToolCalls, ToolCallID |-> ""]>>
                 [] t.Kind = TurnToolResults -> ResultMessages(t.Results)
                 [] t.Kind = TurnSteering ->
                      <<[Role |-> "user", Text |-> t.Content, ToolCalls |-> <<>>,
                         ToolCallID |-> ""]>>
                 [] OTHER -> <<>>
         IN  here \o ConvertFrom(h, i + 1)

ConvertHistoryToMessages(h) == ConvertFrom(h, 1)

-----------------------------------------------------------------------------
(* Values Submit returns. *)

NoErr == Err("none", FALSE)
RetNone == [Kind |-> "none", Cause |-> NoErr]            \* nothing returned yet
RetNil == [Kind |-> "nil", Cause |-> NoErr]
RetClosed == [Kind |-> "session is closed", Cause |-> NoErr]
RetCtx == [Kind |-> "ctx.Err()", Cause |-> NoErr]
RetUnrecoverable(e) == [Kind |-> "unrecoverable LLM error", Cause |-> e]
RetAfterRetries(e) == [Kind |-> "LLM error after retries", Cause |-> e]

(* The configurations of the explored runs: SessionConfig's limits and loop
   detection settings, and the profile's SupportsParallelToolCalls. *)
Config(rounds, turns, loop, window, parallel) ==
    [MaxToolRoundsPerInput |-> rounds, MaxTurns |-> turns,
     EnableLoopDetection |-> loop, LoopDetectionWindow |-> window,
     SupportsParallelToolCalls |-> parallel]

Configs ==
    {Config(2, 0, TRUE, 4, TRUE),
     Config(2, 3, FALSE, 4, FALSE),
     Config(1, 0, TRUE, 2, FALSE),
     Config(0, 0, TRUE, 4, TRUE)}

(* The buffer NewSession gives the emitter's channel (session.go:83). *)
EventBufferSize == 256

(* NewSession (session.go:70-96): Idle, empty history and queues, the caller's
   configuration; no Submit is running and the host has called nothing. *)
NewSessionOf(cfg, threads) ==
    /\ state = StateIdle
    /\ history = <<>>
    /\ steeringQueue = <<>>
    /\ followupQueue = <<>>
    /\ abortSignaled = FALSE
    /\ config = cfg
    /\ lastEmit = [e \in threads \cup {Closer} |-> "none"]
    /\ pc = [t \in threads |-> "idle"]
    /\ userInput = [t \in threads |-> <<>>]
    /\ roundCount = [t \in threads |-> 0]
    /\ aborted = [t \in threads |-> FALSE]
    /\ messages = [t \in threads |-> <<>>]
    /\ drainRet = [t \in threads |-> "check"]
    /\ request = [t \in threads |-> <<>>]
    /\ toolCalls = [t \in threads |-> <<>>]
    /\ results = [t \in threads |-> <<>>]
    /\ loopHit = [t \in threads |-> FALSE]
    /\ ctxDone = [t \in threads |-> FALSE]
    /\ ret = [t \in threads |-> RetNone]
    /\ llmOutcome = [t \in threads |-> NoErr]
    /\ llmCalls = [t \in threads |-> 0]
    /\ histAtCall = [t \in threads |-> 0]
    /\ why = [t \in threads |-> "none"]
    /\ limitsHit = [t \in threads |-> {}]
    /\ closePc = "idle"
    /\ snap = <<>>
    /\ nHost = 0 /\ nSubmit = 0 /\ nFollow = 0 /\ nSteer = 0 /\ nComplete = 0
    /\ lastOutput = <<>>

NewSession(cfg) == NewSessionOf(cfg, Threads)

(* The goroutines that call the emitter, and no holder of its mutex. *)
EmGoroutines == {"g1", "g2"}
NoGoroutine == "none"

(* NewEventEmitter (truncation.go:221-229): an open channel with the given
   buffer, 256 when the size given is not positive. *)
NewEventEmitter(bufferSize) ==
    /\ emCh = <<>>
    /\ emCap = IF bufferSize <= 0 THEN 256 ELSE bufferSize
    /\ emClosed = FALSE
    /\ emDelivered = <<>>
    /\ emCloses = 0 /\ emFault = FALSE /\ emSeq = 0 /\ emCalls = [Emit |-> 0, Close |-> 0]
    /\ emPc = [g \in EmGoroutines |-> "idle"]
    /\ emMu = NoGoroutine

(* No function call under study. *)
NoCall == fnArgs = <<>> /\ fnResult = <<>>

(* Errors as Retry sees them: the dynamic type, ProviderError.Retryable and
   ProviderError.RetryAfter in seconds (-1 for nil). *)
RetryErr(type, retryable, retryAfter) ==
    [Type |-> type, Retryable |-> retryable, RetryAfter |-> retryAfter]
NoRetryErr == RetryErr("none", FALSE, -1)
RetryReturn(kind, err) == [Kind |-> kind, Err |-> err]

(* No Retry call in progress. *)
NoRetry ==
    retry = [pc |-> "idle", attempt |-> 0, calls |-> 0, err |-> NoRetryErr,
             outs |-> <<>>, ctxDone |-> FALSE, ret |-> RetryReturn("none", NoRetryErr)]
(* Session.mu looked at on its own: free, every goroutine at rest. *)
MuFree == "free"
NoLocking == mu = MuFree /\ muPc = <<>>

(* Two ToolRegistries and the goroutines that call them; a tool is known by
   its name and its executor. *)
Registries == {"a", "b"}
RegGoroutines == {"g1", "g2"}
RegToolNames == {"shell"}
RegExecutors == {"exec 1", "exec 2"}
NoTool == "nil"
NoOne == "none"

(* sync.RWMutex: who holds read locks, and the writer that holds the lock or
   has announced itself and waits for the readers to leave. *)
RWMutex == [readers |-> {}, writer |-> NoOne, held |-> FALSE]

(* NewToolRegistry (profile_gemini.go:394-398) for each registry, no call in
   progress. *)
NewToolRegistry == [tools |-> [n \in RegToolNames |-> NoTool], mu |-> RWMutex]

NoRegistryCalls ==
    reg = [r |-> [x \in Registries |-> NewToolRegistry],
           pc |-> [g \in RegGoroutines |-> <<>>],
           calls |-> 0]

NoLibraryCalls == NoRetry /\ NoLocking /\ NoRegistryCalls

(* A session without subagent tools: no handle, nothing registered. *)
NoManager == -1
NoReturn == [Caller |-> NoManager, Tool |-> "none", Err |-> FALSE, Msg |-> "",
             Mgr |-> NoManager, ID |-> NoManager, Status |-> "", Result |-> <<>>]
NoSubagents ==
    /\ subAgents = <<>>
    /\ subRegistry = NoManager
    /\ subMaxDepth = 0
    /\ subWait = {}
    /\ subRet = NoReturn
    /\ subCalls = 0

Init ==
    /\ \E cfg \in Configs : NewSession(cfg)
    /\ NewEventEmitter(EventBufferSize)
    /\ NoCall
    /\ NoSubagents
    /\ NoLibraryCalls

(* EventEmitter.Emit as far as the session's claims need it: the kind of the
   event the caller hands over (a closed emitter or a full buffer drops it). *)
Emit(who, kind) == lastEmit' = [lastEmit EXCEPT ![who] = kind]

Goto(t, p) == pc' = [pc EXCEPT ![t] = p]

threadLocals == <<userInput, roundCount, aborted, messages, drainRet, request,
                  toolCalls, results, loopHit, ctxDone, ret, llmOutcome,
                  llmCalls, histAtCall, why, limitsHit>>

-----------------------------------------------------------------------------
(* The host's calls. *)

HostCall ==
    /\ nHost < MaxHostCalls
    /\ nHost' = nHost + 1

(* Steer that appends the Steering turn to the history itself instead of
   queueing the message. *)
Steer_Direct ==
    /\ HostCall
    /\ nSteer' = nSteer + 1
    /\ history' = Append(history, NewSteeringTurn(SteerText(nSteer + 1)))
    /\ UNCHANGED <<auxVars, state, steeringQueue, followupQueue, abortSignaled, config, emClosed,
                   lastEmit, pc, userInput, roundCount, aborted, messages,
                   drainRet, request, toolCalls, results, loopHit, ctxDone, ret,
                   llmOutcome, llmCalls, histAtCall, why, limitsHit, closePc, snap,
                   nSubmit, nFollow, nComplete>>

(* Steer (session.go:130-134). *)
Steer ==
    /\ HostCall
    /\ nSteer' = nSteer + 1
    /\ steeringQueue' = Append(steeringQueue, SteerText(nSteer + 1))
    /\ UNCHANGED <<auxVars, state, history, followupQueue, abortSignaled, config, emClosed,
                   lastEmit, pc, userInput, roundCount, aborted, messages,
                   drainRet, request, toolCalls, results, loopHit, ctxDone, ret,
                   llmOutcome, llmCalls, histAtCall, why, limitsHit, closePc, snap,
                   nSubmit, nFollow, nComplete>>

(* FollowUp (session.go:137-141). *)
FollowUp ==
    /\ HostCall
    /\ nFollow' = nFollow + 1
    /\ followupQueue' = Append(followupQueue, FollowUpText(nFollow + 1))
    /\ UNCHANGED <<auxVars, state, history, steeringQueue, abortSignaled, config, emClosed,
                   lastEmit, pc, userInput, roundCount, aborted, messages,
                   drainRet, request, toolCalls, results, loopHit, ctxDone, ret,
                   llmOutcome, llmCalls, histAtCall, why, limitsHit, closePc, snap,
                   nSubmit, nSteer, nComplete>>

(* Abort (session.go:144-148). *)
Abort ==
    /\ HostCall
    /\ abortSignaled' = TRUE
    /\ UNCHANGED <<auxVars, state, history, steeringQueue, followupQueue, config, emClosed,
                   lastEmit, pc, userInput, roundCount, aborted, messages,
                   drainRet, request, toolCalls, results, loopHit, ctxDone, ret,
                   llmOutcome, llmCalls, histAtCall, why, limitsHit, closePc, snap,
                   nSubmit, nFollow, nSteer, nComplete>>

(* History (session.go:116-122): a copy of the history under the lock. *)
History ==
    /\ HostCall
    /\ snap' = history
    /\ UNCHANGED <<auxVars, state, history, steeringQueue, followupQueue, abortSignaled,
                   config, emClosed, lastEmit, pc, userInput, roundCount, aborted,
                   messages, drainRet, request, toolCalls, results, loopHit,
                   ctxDone, ret, llmOutcome, llmCalls, histAtCall, why, limitsHit,
                   closePc, nSubmit, nFollow, nSteer, nComplete>>

(* The host cancels the context it passed to a running Submit. *)
CancelCtx(t) ==
    /\ HostCall
    /\ pc[t] # "idle"
    /\ ~ctxDone[t]
    /\ ctxDone' = [ctxDone EXCEPT ![t] = TRUE]
    /\ UNCHANGED <<auxVars, state, history, steeringQueue, followupQueue, abortSignaled,
                   config, emClosed, lastEmit, pc, userInput, roundCount, aborted,
                   messages, drainRet, request, toolCalls, results, loopHit, ret,
                   llmOutcome, llmCalls, histAtCall, why, limitsHit, closePc, snap,
                   nSubmit, nFollow, nSteer, nComplete>>

(* Close (session.go:151-155), first critical section: the state. *)
CloseSetState ==
    /\ HostCall
    /\ closePc = "idle"
    /\ state' = StateClosed
    /\ closePc' = "cleanup"
    /\ UNCHANGED <<auxVars, history, steeringQueue, followupQueue, abortSignaled, config,
                   emClosed, lastEmit, pc, userInput, roundCount, aborted,
                   messages, drainRet, request, toolCalls, results, loopHit,
                   ctxDone, ret, llmOutcome, llmCalls, histAtCall, why, limitsHit,
                   snap, nSubmit, nFollow, nSteer, nComplete>>

(* Close (session.go:156-160): subagents.CloseAll() (no subagent is spawned
   in these runs), the session_end event, emitter.Close(). *)
CloseCleanup ==
    /\ closePc = "cleanup"
    /\ Emit(Closer, "session_end")
    /\ emClosed' = TRUE
    /\ closePc' = "idle"
    /\ UNCHANGED <<auxVars, state, history, steeringQueue, followupQueue, abortSignaled,
                   config, pc, userInput, roundCount, aborted, messages, drainRet,
                   request, toolCalls, results, loopHit, ctxDone, ret, llmOutcome,
                   llmCalls, histAtCall, why, limitsHit, snap, nHost, nSubmit,
                   nFollow, nSteer, nComplete>>

-----------------------------------------------------------------------------
(* The goroutine that runs Submit. *)

(* executeSingleTool whose unknown-tool result does not carry the call's id. *)
executeSingleTool_NoCallID(toolCall) ==
    IF toolCall.Name \notin Registered
    THEN [ToolCallID |-> "", Content |-> <<"Unknown tool: ", toolCall.Name>>,
          IsError |-> TRUE]
    ELSE IF Executor(toolCall) = "err"
    THEN [ToolCallID |-> toolCall.ID, Content |-> <<"Tool error (", toolCall.Name>>,
          IsError |-> TRUE]
    ELSE [ToolCallID |-> toolCall.ID, Content |-> <<"output", toolCall.Name>>,
          IsError |-> FALSE]

(* executeSingleTool that reports an unknown tool as ordinary output. *)
executeSingleTool_UnknownIsOutput(toolCall) ==
    IF toolCall.Name \notin Registered
    THEN [ToolCallID |-> toolCall.ID, Content |-> <<"Unknown tool: ", toolCall.Name>>,
          IsError |-> FALSE]
    ELSE IF Executor(toolCall) = "err"
    THEN [ToolCallID |-> toolCall.ID, Content |-> <<"Tool error (", toolCall.Name>>,
          IsError |-> TRUE]
    ELSE [ToolCallID |-> toolCall.ID, Content |-> <<"output", toolCall.Name>>,
          IsError |-> FALSE]

(* executeSingleTool (session.go:421-476): the result of one call keeps the
   call's id; an unregistered name and an executor error give isError. *)
executeSingleTool(toolCall) ==
    IF toolCall.Name \notin Registered
    THEN [ToolCallID |-> toolCall.ID, Content |-> <<"Unknown tool: ", toolCall.Name>>,
          IsError |-> TRUE]
    ELSE IF Executor(toolCall) = "err"
    THEN [ToolCallID |-> toolCall.ID, Content |-> <<"Tool error (", toolCall.Name>>,
          IsError |-> TRUE]
    ELSE [ToolCallID |-> toolCall.ID, Content |-> <<"output", toolCall.Name>>,
          IsError |-> FALSE]

(* Submit that leaves the abort flag as it finds it. *)
SubmitEntry_KeepsAbort(t) ==
    /\ pc[t] = "idle"
    /\ HostCall
    /\ nSubmit' = nSubmit + 1
    /\ llmOutcome' = [llmOutcome EXCEPT ![t] = NoErr]
    /\ limitsHit' = [limitsHit EXCEPT ![t] = {}]
    /\ why' = [why EXCEPT ![t] = "none"]
    /\ IF state = StateClosed
       THEN /\ ret' = [ret EXCEPT ![t] = RetClosed]
            /\ state' = state /\ abortSignaled' = abortSignaled /\ pc' = pc
            /\ userInput' = userInput /\ ctxDone' = ctxDone
       ELSE /\ state' = StateProcessing
            /\ abortSignaled' = abortSignaled
            /\ userInput' = [userInput EXCEPT ![t] = SubmitText(nSubmit + 1)]
            /\ ctxDone' = [ctxDone EXCEPT ![t] = FALSE]
            /\ ret' = ret
            /\ Goto(t, "append_user")
    /\ UNCHANGED <<auxVars, history, steeringQueue, followupQueue, config, emClosed,
                   lastEmit, roundCount, aborted, messages, drainRet, request,
                   toolCalls, results, loopHit, llmCalls, histAtCall, closePc,
                   snap, nFollow, nSteer, nComplete>>

(* Submit (session.go:171-182): a closed session refuses the input; otherwise
   the state becomes Processing and the abort flag is cleared. *)
SubmitEntry(t) ==
    /\ pc[t] = "idle"
    /\ HostCall
    /\ nSubmit' = nSubmit + 1
    /\ llmOutcome' = [llmOutcome EXCEPT ![t] = NoErr]
    /\ limitsHit' = [limitsHit EXCEPT ![t] = {}]
    /\ why' = [why EXCEPT ![t] = "none"]
    /\ IF state = StateClosed
       THEN /\ ret' = [ret EXCEPT ![t] = RetClosed]
            /\ state' = state /\ abortSignaled' = abortSignaled /\ pc' = pc
            /\ userInput' = userInput /\ ctxDone' = ctxDone
       ELSE /\ state' = StateProcessing
            /\ abortSignaled' = FALSE
            /\ userInput' = [userInput EXCEPT ![t] = SubmitText(nSubmit + 1)]
            /\ ctxDone' = [ctxDone EXCEPT ![t] = FALSE]
            /\ ret' = ret
            /\ Goto(t, "append_user")
    /\ UNCHANGED <<auxVars, history, steeringQueue, followupQueue, config, emClosed,
                   lastEmit, roundCount, aborted, messages, drainRet, request,
                   toolCalls, results, loopHit, llmCalls, histAtCall, closePc,
                   snap, nFollow, nSteer, nComplete>>

(* processInput (session.go:185-197): the User turn, the user_input event,
   then drainSteering and roundCount := 0. *)
AppendUser(t) ==
    /\ pc[t] = "append_user"
    /\ history' = Append(history, NewUserTurn(userInput[t]))
    /\ Emit(t, "user_input")
    /\ roundCount' = [roundCount EXCEPT ![t] = 0]
    /\ llmCalls' = [llmCalls EXCEPT ![t] = 0]
    /\ why' = [why EXCEPT ![t] = "none"]
    /\ drainRet' = [drainRet EXCEPT ![t] = "check"]
    /\ Goto(t, "drain")
    /\ UNCHANGED <<auxVars, state, steeringQueue, followupQueue, abortSignaled, config,
                   emClosed, userInput, aborted, messages, request, toolCalls,
                   results, loopHit, ctxDone, ret, llmOutcome, histAtCall,
                   limitsHit, closePc, snap, nHost, nSubmit, nFollow, nSteer,
                   nComplete>>

(* drainSteering that copies the queue and does not empty it. *)
DrainSteering_KeepsQueue(t) ==
    /\ pc[t] = "drain"
    /\ messages' = [messages EXCEPT ![t] = steeringQueue]
    /\ steeringQueue' = steeringQueue
    /\ Goto(t, IF steeringQueue = <<>> THEN drainRet[t] ELSE "inject")
    /\ UNCHANGED <<auxVars, state, history, followupQueue, abortSignaled, config, emClosed,
                   lastEmit, userInput, roundCount, aborted, drainRet, request,
                   toolCalls, results, loopHit, ctxDone, ret, llmOutcome, llmCalls,
                   histAtCall, why, limitsHit, closePc, snap, nHost, nSubmit,
                   nFollow, nSteer, nComplete>>

(* drainSteering (session.go:372-376): copy the queue and empty it. *)
DrainSteering(t) ==
    /\ pc[t] = "drain"
    /\ messages' = [messages EXCEPT ![t] = steeringQueue]
    /\ steeringQueue' = <<>>
    /\ Goto(t, IF steeringQueue = <<>> THEN drainRet[t] ELSE "inject")
    /\ UNCHANGED <<auxVars, state, history, followupQueue, abortSignaled, config, emClosed,
                   lastEmit, userInput, roundCount, aborted, drainRet, request,
                   toolCalls, results, loopHit, ctxDone, ret, llmOutcome, llmCalls,
                   histAtCall, why, limitsHit, closePc, snap, nHost, nSubmit,
                   nFollow, nSteer, nComplete>>

(* drainSteering (session.go:378-385): one Steering turn and one
   steering_injected event per copied message. *)
InjectSteering(t) ==
    /\ pc[t] = "inject"
    /\ messages[t] # <<>>
    /\ history' = Append(history, NewSteeringTurn(Head(messages[t])))
    /\ Emit(t, "steering_injected")
    /\ messages' = [messages EXCEPT ![t] = Tail(messages[t])]
    /\ Goto(t, IF Tail(messages[t]) = <<>> THEN drainRet[t] ELSE "inject")
    /\ UNCHANGED <<auxVars, state, steeringQueue, followupQueue, abortSignaled, config,
                   emClosed, userInput, roundCount, aborted, drainRet, request,
                   toolCalls, results, loopHit, ctxDone, ret, llmOutcome, llmCalls,
                   histAtCall, why, limitsHit, closePc, snap, nHost, nSubmit,
                   nFollow, nSteer, nComplete>>

(* The round limit compared with > instead of >=. *)
CheckRounds_OffByOne(t) ==
    /\ pc[t] = "check"
    /\ aborted' = [aborted EXCEPT ![t] = abortSignaled]
    /\ IF roundCount[t] > config.MaxToolRoundsPerInput
       THEN /\ Emit(t, "turn_limit")
            /\ why' = [why EXCEPT ![t] = "round_limit"]
            /\ limitsHit' = [limitsHit EXCEPT ![t] = limitsHit[t] \cup {"rounds"}]
            /\ Goto(t, "exit")
       ELSE /\ lastEmit' = lastEmit /\ why' = why /\ limitsHit' = limitsHit
            /\ Goto(t, "check_turns")
    /\ UNCHANGED <<auxVars, state, history, steeringQueue, followupQueue, abortSignaled,
                   config, emClosed, userInput, roundCount, messages, drainRet,
                   request, toolCalls, results, loopHit, ctxDone, ret, llmOutcome,
                   llmCalls, histAtCall, closePc, snap, nHost, nSubmit, nFollow,
                   nSteer, nComplete>>

(* The loop's limits (session.go:201-212): read the configuration and the
   abort flag under the lock, then the round limit. *)
CheckRounds(t) ==
    /\ pc[t] = "check"
    /\ aborted' = [aborted EXCEPT ![t] = abortSignaled]
    /\ IF roundCount[t] >= config.MaxToolRoundsPerInput
       THEN /\ Emit(t, "turn_limit")
            /\ why' = [why EXCEPT ![t] = "round_limit"]
            /\ limitsHit' = [limitsHit EXCEPT ![t] = limitsHit[t] \cup {"rounds"}]
            /\ Goto(t, "exit")
       ELSE /\ lastEmit' = lastEmit /\ why' = why /\ limitsHit' = limitsHit
            /\ Goto(t, "check_turns")
    /\ UNCHANGED <<auxVars, state, history, steeringQueue, followupQueue, abortSignaled,
                   config, emClosed, userInput, roundCount, messages, drainRet,
                   request, toolCalls, results, loopHit, ctxDone, ret, llmOutcome,
                   llmCalls, histAtCall, closePc, snap, nHost, nSubmit, nFollow,
                   nSteer, nComplete>>

(* The loop without the abort check. *)
CheckTurns_IgnoresAbort(t) ==
    /\ pc[t] = "check_turns"
    /\ IF config.MaxTurns > 0 /\ countTurns(history) >= config.MaxTurns
       THEN /\ Emit(t, "turn_limit")
            /\ why' = [why EXCEPT ![t] = "turn_limit"]
            /\ limitsHit' = [limitsHit EXCEPT ![t] = limitsHit[t] \cup {"turns"}]
            /\ Goto(t, "exit")
       ELSE /\ lastEmit' = lastEmit /\ limitsHit' = limitsHit
            /\ IF FALSE
               THEN why' = [why EXCEPT ![t] = "abort"] /\ Goto(t, "exit")
               ELSE why' = why /\ Goto(t, "check_ctx")
    /\ UNCHANGED <<auxVars, state, history, steeringQueue, followupQueue, abortSignaled,
                   config, emClosed, userInput, roundCount, aborted, messages,
                   drainRet, request, toolCalls, results, loopHit, ctxDone, ret,
                   llmOutcome, llmCalls, histAtCall, closePc, snap, nHost, nSubmit,
                   nFollow, nSteer, nComplete>>

(* The turn limit compared with > instead of >=. *)
CheckTurns_OffByOne(t) ==
    /\ pc[t] = "check_turns"
    /\ IF config.MaxTurns > 0 /\ countTurns(history) > config.MaxTurns
       THEN /\ Emit(t, "turn_limit")
            /\ why' = [why EXCEPT ![t] = "turn_limit"]
            /\ limitsHit' = [limitsHit EXCEPT ![t] = limitsHit[t] \cup {"turns"}]
            /\ Goto(t, "exit")
       ELSE /\ lastEmit' = lastEmit /\ limitsHit' = limitsHit
            /\ IF aborted[t]
               THEN why' = [why EXCEPT ![t] = "abort"] /\ Goto(t, "exit")
               ELSE why' = why /\ Goto(t, "check_ctx")
    /\ UNCHANGED <<auxVars, state, history, steeringQueue, followupQueue, abortSignaled,
                   config, emClosed, userInput, roundCount, aborted, messages,
                   drainRet, request, toolCalls, results, loopHit, ctxDone, ret,
                   llmOutcome, llmCalls, histAtCall, closePc, snap, nHost, nSubmit,
                   nFollow, nSteer, nComplete>>

(* session.go:214-223: the turn limit (countTurns under the lock), then the
   copy of the abort flag. *)
CheckTurns(t) ==
    /\ pc[t] = "check_turns"
    /\ IF config.MaxTurns > 0 /\ countTurns(history) >= config.MaxTurns
       THEN /\ Emit(t, "turn_limit")
            /\ why' = [why EXCEPT ![t] = "turn_limit"]
            /\ limitsHit' = [limitsHit EXCEPT ![t] = limitsHit[t] \cup {"turns"}]
            /\ Goto(t, "exit")
       ELSE /\ lastEmit' = lastEmit /\ limitsHit' = limitsHit
            /\ IF aborted[t]
               THEN why' = [why EXCEPT ![t] = "abort"] /\ Goto(t, "exit")
               ELSE why' = why /\ Goto(t, "check_ctx")
    /\ UNCHANGED <<auxVars, state, history, steeringQueue, followupQueue, abortSignaled,
                   config, emClosed, userInput, roundCount, aborted, messages,
                   drainRet, request, toolCalls, results, loopHit, ctxDone, ret,
                   llmOutcome, llmCalls, histAtCall, closePc, snap, nHost, nSubmit,
                   nFollow, nSteer, nComplete>>

(* session.go:225-236: a cancelled context closes the session and Submit
   returns ctx.Err(). *)
CheckCtxDone(t) ==
    /\ pc[t] = "check_ctx"
    /\ ctxDone[t]
    /\ state' = StateClosed
    /\ Emit(t, "error")
    /\ ret' = [ret EXCEPT ![t] = RetCtx]
    /\ Goto(t, "idle")
    /\ UNCHANGED <<auxVars, history, steeringQueue, followupQueue, abortSignaled, config,
                   emClosed, userInput, roundCount, aborted, messages, drainRet,
                   request, toolCalls, results, loopHit, ctxDone, llmOutcome,
                   llmCalls, histAtCall, why, limitsHit, closePc, snap, nHost,
                   nSubmit, nFollow, nSteer, nComplete>>

(* session.go:238-278: the request from a History() copy, the
   assistant_text_start event, and the Completer call is started. *)
StartComplete(t) ==
    /\ pc[t] = "check_ctx"
    /\ ~ctxDone[t]
    /\ nComplete < MaxCompletions
    /\ nComplete' = nComplete + 1
    /\ request' = [request EXCEPT ![t] = ConvertHistoryToMessages(history)]
    /\ Emit(t, "assistant_text_start")
    /\ histAtCall' = [histAtCall EXCEPT ![t] = Len(history)]
    /\ llmCalls' = [llmCalls EXCEPT ![t] = llmCalls[t] + 1]
    /\ Goto(t, "llm")
    /\ UNCHANGED <<auxVars, state, history, steeringQueue, followupQueue, abortSignaled,
                   config, emClosed, userInput, roundCount, aborted, messages,
                   drainRet, toolCalls, results, loopHit, ctxDone, ret, llmOutcome,
                   why, limitsHit, closePc, snap, nHost, nSubmit, nFollow, nSteer>>

(* The non-retryable branch without the transition to Closed. *)
CompleteFatal_StaysOpen(t, e) ==
    /\ pc[t] = "llm"
    /\ ~IsRetryable(e)
    /\ state' = state
    /\ Emit(t, "error")
    /\ llmOutcome' = [llmOutcome EXCEPT ![t] = e]
    /\ request' = [request EXCEPT ![t] = <<>>]
    /\ ret' = [ret EXCEPT ![t] = RetUnrecoverable(e)]
    /\ Goto(t, "idle")
    /\ UNCHANGED <<auxVars, history, steeringQueue, followupQueue, abortSignaled, config,
                   emClosed, userInput, roundCount, aborted, messages, drainRet,
                   toolCalls, results, loopHit, ctxDone, llmCalls, histAtCall, why,
                   limitsHit, closePc, snap, nHost, nSubmit, nFollow, nSteer,
                   nComplete>>

(* session.go:279-289: the Completer returns an error IsRetryable rejects. *)
CompleteFatal(t, e) ==
    /\ pc[t] = "llm"
    /\ ~IsRetryable(e)
    /\ state' = StateClosed
    /\ Emit(t, "error")
    /\ llmOutcome' = [llmOutcome EXCEPT ![t] = e]
    /\ request' = [request EXCEPT ![t] = <<>>]
    /\ ret' = [ret EXCEPT ![t] = RetUnrecoverable(e)]
    /\ Goto(t, "idle")
    /\ UNCHANGED <<auxVars, history, steeringQueue, followupQueue, abortSignaled, config,
                   emClosed, userInput, roundCount, aborted, messages, drainRet,
                   toolCalls, results, loopHit, ctxDone, llmCalls, histAtCall, why,
                   limitsHit, closePc, snap, nHost, nSubmit, nFollow, nSteer,
                   nComplete>>

(* The retryable branch closing the session like the non-retryable one. *)
CompleteRetryable_Closes(t, e) ==
    /\ pc[t] = "llm"
    /\ IsRetryable(e)
    /\ state' = StateClosed
    /\ Emit(t, "error")
    /\ llmOutcome' = [llmOutcome EXCEPT ![t] = e]
    /\ request' = [request EXCEPT ![t] = <<>>]
    /\ ret' = [ret EXCEPT ![t] = RetAfterRetries(e)]
    /\ Goto(t, "idle")
    /\ UNCHANGED <<auxVars, history, steeringQueue, followupQueue, abortSignaled,
                   config, emClosed, userInput, roundCount, aborted, messages,
                   drainRet, toolCalls, results, loopHit, ctxDone, llmCalls,
                   histAtCall, why, limitsHit, closePc, snap, nHost, nSubmit,
                   nFollow, nSteer, nComplete>>

(* session.go:290-295: the Completer returns a retryable error. *)
CompleteRetryable(t, e) ==
    /\ pc[t] = "llm"
    /\ IsRetryable(e)
    /\ Emit(t, "error")
    /\ llmOutcome' = [llmOutcome EXCEPT ![t] = e]
    /\ request' = [request EXCEPT ![t] = <<>>]
    /\ ret' = [ret EXCEPT ![t] = RetAfterRetries(e)]
    /\ Goto(t, "idle")
    /\ UNCHANGED <<auxVars, state, history, steeringQueue, followupQueue, abortSignaled,
                   config, emClosed, userInput, roundCount, aborted, messages,
                   drainRet, toolCalls, results, loopHit, ctxDone, llmCalls,
                   histAtCall, why, limitsHit, closePc, snap, nHost, nSubmit,
                   nFollow, nSteer, nComplete>>

(* The loop breaking after every response, tool calls or not. *)
RecordAssistant_AlwaysBreaks(t, tcs) ==
    /\ pc[t] = "llm"
    /\ history' = Append(history, NewAssistantTurn(AssistantText, tcs))
    /\ Emit(t, "assistant_text_end")
    /\ llmOutcome' = [llmOutcome EXCEPT ![t] = NoErr]
    /\ request' = [request EXCEPT ![t] = <<>>]
    /\ toolCalls' = [toolCalls EXCEPT ![t] = tcs]
    /\ IF Len(tcs) >= 0
       THEN /\ why' = [why EXCEPT ![t] = "natural"]
            /\ roundCount' = roundCount /\ results' = results
            /\ Goto(t, "exit")
       ELSE /\ roundCount' = [roundCount EXCEPT ![t] = roundCount[t] + 1]
            /\ results' = [results EXCEPT ![t] = [i \in 1..Len(tcs) |-> Pending]]
            /\ why' = why
            /\ Goto(t, "tools")
    /\ UNCHANGED <<auxVars, state, steeringQueue, followupQueue, abortSignaled, config,
                   emClosed, userInput, aborted, messages, drainRet, loopHit,
                   ctxDone, ret, llmCalls, histAtCall, limitsHit, closePc, snap,
                   nHost, nSubmit, nFollow, nSteer, nComplete>>

(* session.go:298-326: the Assistant turn, assistant_text_end, the context
   usage check (the texts of these runs stay far below 80% of any context
   window, so it emits nothing), natural completion or the start of a tool
   round. *)
RecordAssistant(t, tcs) ==
    /\ pc[t] = "llm"
    /\ history' = Append(history, NewAssistantTurn(AssistantText, tcs))
    /\ Emit(t, "assistant_text_end")
    /\ llmOutcome' = [llmOutcome EXCEPT ![t] = NoErr]
    /\ request' = [request EXCEPT ![t] = <<>>]
    /\ toolCalls' = [toolCalls EXCEPT ![t] = tcs]
    /\ IF Len(tcs) = 0
       THEN /\ why' = [why EXCEPT ![t] = "natural"]
            /\ roundCount' = roundCount /\ results' = results
            /\ Goto(t, "exit")
       ELSE /\ roundCount' = [roundCount EXCEPT ![t] = roundCount[t] + 1]
            /\ results' = [results EXCEPT ![t] = [i \in 1..Len(tcs) |-> Pending]]
            /\ why' = why
            /\ Goto(t, "tools")
    /\ UNCHANGED <<auxVars, state, steeringQueue, followupQueue, abortSignaled, config,
                   emClosed, userInput, aborted, messages, drainRet, loopHit,
                   ctxDone, ret, llmCalls, histAtCall, limitsHit, closePc, snap,
                   nHost, nSubmit, nFollow, nSteer, nComplete>>

(* The dispatch whose workers all read the loop variable after the loop
   has ended, so that each executes the last call. *)
ExecuteTool_SharedLoopVar(t, i) ==
    /\ pc[t] = "tools"
    /\ i \in 1..Len(toolCalls[t])
    /\ results[t][i] = Pending
    /\ \/ config.SupportsParallelToolCalls /\ Len(toolCalls[t]) > 1
       \/ \A j \in 1..(i - 1) : results[t][j] # Pending
    /\ results' = [results EXCEPT ![t][i] = executeSingleTool(toolCalls[t][Len(toolCalls[t])])]
    /\ Emit(t, "tool_call_end")
    /\ UNCHANGED <<auxVars, state, history, steeringQueue, followupQueue, abortSignaled,
                   config, emClosed, pc, userInput, roundCount, aborted, messages,
                   drainRet, request, toolCalls, loopHit, ctxDone, ret, llmOutcome,
                   llmCalls, histAtCall, why, limitsHit, closePc, snap, nHost,
                   nSubmit, nFollow, nSteer, nComplete>>

(* executeToolCalls (session.go:390-417) running executeSingleTool for call
   i: in call order, or in any order when the profile supports parallel tool
   calls and the turn has more than one call. *)
ExecuteTool(t, i) ==
    /\ pc[t] = "tools"
    /\ i \in 1..Len(toolCalls[t])
    /\ results[t][i] = Pending
    /\ \/ config.SupportsParallelToolCalls /\ Len(toolCalls[t]) > 1
       \/ \A j \in 1..(i - 1) : results[t][j] # Pending
    /\ results' = [results EXCEPT ![t][i] = executeSingleTool(toolCalls[t][i])]
    /\ Emit(t, "tool_call_end")
    /\ UNCHANGED <<auxVars, state, history, steeringQueue, followupQueue, abortSignaled,
                   config, emClosed, pc, userInput, roundCount, aborted, messages,
                   drainRet, request, toolCalls, loopHit, ctxDone, ret, llmOutcome,
                   llmCalls, histAtCall, why, limitsHit, closePc, snap, nHost,
                   nSubmit, nFollow, nSteer, nComplete>>

(* The ToolResults turn appended as soon as the first call has returned. *)
AppendToolResults_Early(t) ==
    /\ pc[t] = "tools"
    /\ \E i \in 1..Len(results[t]) : results[t][i] # Pending
    /\ history' = Append(history, NewToolResultsTurn(results[t]))
    /\ drainRet' = [drainRet EXCEPT ![t] = "loop_detect"]
    /\ Goto(t, "drain")
    /\ UNCHANGED <<auxVars, state, steeringQueue, followupQueue, abortSignaled, config,
                   emClosed, lastEmit, userInput, roundCount, aborted, messages,
                   request, toolCalls, results, loopHit, ctxDone, ret, llmOutcome,
                   llmCalls, histAtCall, why, limitsHit, closePc, snap, nHost,
                   nSubmit, nFollow, nSteer, nComplete>>

(* session.go:326-332: all calls have returned; the ToolResults turn. *)
AppendToolResults(t) ==
    /\ pc[t] = "tools"
    /\ \A i \in 1..Len(results[t]) : results[t][i] # Pending
    /\ history' = Append(history, NewToolResultsTurn(results[t]))
    /\ drainRet' = [drainRet EXCEPT ![t] = "loop_detect"]
    /\ Goto(t, "drain")
    /\ UNCHANGED <<auxVars, state, steeringQueue, followupQueue, abortSignaled, config,
                   emClosed, lastEmit, userInput, roundCount, aborted, messages,
                   request, toolCalls, results, loopHit, ctxDone, ret, llmOutcome,
                   llmCalls, histAtCall, why, limitsHit, closePc, snap, nHost,
                   nSubmit, nFollow, nSteer, nComplete>>

(* A loop detection that does not look at EnableLoopDetection. *)
LoopDetect_IgnoresSwitch(t) ==
    /\ pc[t] = "loop_detect"
    /\ LET hit == DetectLoop(history, config.LoopDetectionWindow)
       IN  /\ loopHit' = [loopHit EXCEPT ![t] = hit]
           /\ Goto(t, IF hit THEN "loop_warn" ELSE "check")
    /\ UNCHANGED <<auxVars, state, history, steeringQueue, followupQueue, abortSignaled,
                   config, emClosed, lastEmit, userInput, roundCount, aborted,
                   messages, drainRet, request, toolCalls, results, ctxDone, ret,
                   llmOutcome, llmCalls, histAtCall, why, limitsHit, closePc, snap,
                   nHost, nSubmit, nFollow, nSteer, nComplete>>

(* session.go:334-343: loop detection on a copy of the history. *)
LoopDetect(t) ==
    /\ pc[t] = "loop_detect"
    /\ LET hit == config.EnableLoopDetection
                  /\ DetectLoop(history, config.LoopDetectionWindow)
       IN  /\ loopHit' = [loopHit EXCEPT ![t] = hit]
           /\ Goto(t, IF hit THEN "loop_warn" ELSE "check")
    /\ UNCHANGED <<auxVars, state, history, steeringQueue, followupQueue, abortSignaled,
                   config, emClosed, lastEmit, userInput, roundCount, aborted,
                   messages, drainRet, request, toolCalls, results, ctxDone, ret,
                   llmOutcome, llmCalls, histAtCall, why, limitsHit, closePc, snap,
                   nHost, nSubmit, nFollow, nSteer, nComplete>>

(* session.go:344-351: the warning as a Steering turn, loop_detection. *)
LoopWarn(t) ==
    /\ pc[t] = "loop_warn"
    /\ history' = Append(history, NewSteeringTurn(LoopWarning))
    /\ Emit(t, "loop_detection")
    /\ Goto(t, "check")
    /\ UNCHANGED <<auxVars, state, steeringQueue, followupQueue, abortSignaled, config,
                   emClosed, userInput, roundCount, aborted, messages, drainRet,
                   request, toolCalls, results, loopHit, ctxDone, ret, llmOutcome,
                   llmCalls, histAtCall, why, limitsHit, closePc, snap, nHost,
                   nSubmit, nFollow, nSteer, nComplete>>

(* The exit that takes the newest follow-up instead of the oldest. *)
ExitLoop_LastFirst(t) ==
    /\ pc[t] = "exit"
    /\ IF Len(followupQueue) > 0
       THEN /\ userInput' = [userInput EXCEPT ![t] = followupQueue[Len(followupQueue)]]
            /\ followupQueue' = SubSeq(followupQueue, 1, Len(followupQueue) - 1)
            /\ state' = state /\ lastEmit' = lastEmit /\ ret' = ret
            /\ Goto(t, "append_user")
       ELSE /\ state' = StateIdle
            /\ Emit(t, "session_end")
            /\ ret' = [ret EXCEPT ![t] = RetNil]
            /\ userInput' = userInput /\ followupQueue' = followupQueue
            /\ Goto(t, "idle")
    /\ UNCHANGED <<auxVars, history, steeringQueue, abortSignaled, config, emClosed,
                   roundCount, aborted, messages, drainRet, request, toolCalls,
                   results, loopHit, ctxDone, llmOutcome, llmCalls, histAtCall,
                   why, limitsHit, closePc, snap, nHost, nSubmit, nFollow, nSteer,
                   nComplete>>

(* session.go:355-367: the next follow-up becomes the input of a nested
   processInput; with none queued the state becomes Idle and Submit returns
   nil. *)
ExitLoop(t) ==
    /\ pc[t] = "exit"
    /\ IF Len(followupQueue) > 0
       THEN /\ userInput' = [userInput EXCEPT ![t] = followupQueue[1]]
            /\ followupQueue' = Tail(followupQueue)
            /\ state' = state /\ lastEmit' = lastEmit /\ ret' = ret
            /\ Goto(t, "append_user")
       ELSE /\ state' = StateIdle
            /\ Emit(t, "session_end")
            /\ ret' = [ret EXCEPT ![t] = RetNil]
            /\ userInput' = userInput /\ followupQueue' = followupQueue
            /\ Goto(t, "idle")
    /\ UNCHANGED <<auxVars, history, steeringQueue, abortSignaled, config, emClosed,
                   roundCount, aborted, messages, drainRet, request, toolCalls,
                   results, loopHit, ctxDone, llmOutcome, llmCalls, histAtCall,
                   why, limitsHit, closePc, snap, nHost, nSubmit, nFollow, nSteer,
                   nComplete>>

-----------------------------------------------------------------------------
(* One host goroutine calls Submit, one call after the other; Steer, FollowUp,
   Abort, History, Close and the cancellation of the context come from other
   goroutines of the host at any time. *)
Next ==
    \/ \E t \in Threads : SubmitEntry(t)
    \/ \E t \in Threads : AppendUser(t)
    \/ \E t \in Threads : DrainSteering(t)
    \/ \E t \in Threads : InjectSteering(t)
    \/ \E t \in Threads : CheckRounds(t)
    \/ \E t \in Threads : CheckTurns(t)
    \/ \E t \in Threads : CheckCtxDone(t)
    \/ \E t \in Threads : StartComplete(t)
    \/ \E t \in Threads, e \in CompleterErrors : CompleteFatal(t, e)
    \/ \E t \in Threads, e \in CompleterErrors : CompleteRetryable(t, e)
    \/ \E t \in Threads, tcs \in Responses : RecordAssistant(t, tcs)
    \/ \E t \in Threads, i \in 1..MaxCalls : ExecuteTool(t, i)
    \/ \E t \in Threads : AppendToolResults(t)
    \/ \E t \in Threads : LoopDetect(t)
    \/ \E t \in Threads : LoopWarn(t)
    \/ \E t \in Threads : ExitLoop(t)
    \/ \E t \in Threads : CancelCtx(t)
    \/ Steer
    \/ FollowUp
    \/ Abort
    \/ History
    \/ CloseSetState
    \/ CloseCleanup

Spec == Init /\ [][Next]_vars

(* Two goroutines of the host calling Submit on one session: Submit takes no
   notice of a Submit in flight (session.go:171-182), so both run
   processInput. The host makes no other call in these runs and cancels no
   context. *)
Submitters == {1, 2}

InitConcurrent ==
    /\ \E cfg \in Configs : NewSessionOf(cfg, Submitters)
    /\ NewEventEmitter(EventBufferSize)
    /\ NoCall
    /\ NoSubagents
    /\ NoLibraryCalls

NextConcurrent ==
    \/ \E t \in Submitters : SubmitEntry(t)
    \/ \E t \in Submitters : AppendUser(t)
    \/ \E t \in Submitters : DrainSteering(t)
    \/ \E t \in Submitters : CheckRounds(t)
    \/ \E t \in Submitters : CheckTurns(t)
    \/ \E t \in Submitters : StartComplete(t)
    \/ \E t \in Submitters, e \in CompleterErrors : CompleteFatal(t, e)
    \/ \E t \in Submitters, e \in CompleterErrors : CompleteRetryable(t, e)
    \/ \E t \in Submitters, tcs \in Responses : RecordAssistant(t, tcs)
    \/ \E t \in Submitters, i \in 1..MaxCalls : ExecuteTool(t, i)
    \/ \E t \in Submitters : AppendToolResults(t)
    \/ \E t \in Submitters : LoopDetect(t)
    \/ \E t \in Submitters : LoopWarn(t)
    \/ \E t \in Submitters : ExitLoop(t)

SpecConcurrent == InitConcurrent /\ [][NextConcurrent]_vars

-----------------------------------------------------------------------------
(* A tool round whose executor succeeds, for every raw output and every
   configuration of the tool's limits: the session stands where one Submit
   has received a response with one tool call; the call's executor returns
   the text its arguments name. *)

RawOutputs == UNION {[1..n -> {"a", NL}] : n \in 0..MaxRawLen}

(* A map[string]int with no entry or with the tool's entry. *)
LimitMaps(toolName, values) == {<<>>} \cup {toolName :> v : v \in values}

RawOutput(toolCall) == toolCall.Arguments

InitTool ==
    \E toolName \in Registered, raw \in RawOutputs :
    \E charLimits \in LimitMaps(toolName, 0..MaxCharLimit),
       lineLimits \in LimitMaps(toolName, 0..MaxLineLimit) :
    LET calls == <<ToolCall("c1", toolName, raw)>>
    IN  /\ state = StateProcessing
        /\ history = <<NewUserTurn(SubmitText(1)),
                       NewAssistantTurn(AssistantText, calls)>>
        /\ steeringQueue = <<>>
        /\ followupQueue = <<>>
        /\ abortSignaled = FALSE
        /\ config = Config(2, 0, TRUE, 4, FALSE)
                    @@ [ToolOutputLimits |-> charLimits, ToolLineLimits |-> lineLimits]
        /\ NewEventEmitter(EventBufferSize)
        /\ NoCall
        /\ NoSubagents
        /\ NoLibraryCalls
        /\ lastEmit = [e \in Emitters |-> IF e \in Threads THEN "assistant_text_end"
                                          ELSE "none"]
        /\ pc = [t \in Threads |-> "tools"]
        /\ userInput = [t \in Threads |-> SubmitText(1)]
        /\ roundCount = [t \in Threads |-> 1]
        /\ aborted = [t \in Threads |-> FALSE]
        /\ messages = [t \in Threads |-> <<>>]
        /\ drainRet = [t \in Threads |-> "check"]
        /\ request = [t \in Threads |-> <<>>]
        /\ toolCalls = [t \in Threads |-> calls]
        /\ results = [t \in Threads |-> <<Pending>>]
        /\ loopHit = [t \in Threads |-> FALSE]
        /\ ctxDone = [t \in Threads |-> FALSE]
        /\ ret = [t \in Threads |-> RetNone]
        /\ llmOutcome = [t \in Threads |-> NoErr]
        /\ llmCalls = [t \in Threads |-> 1]
        /\ histAtCall = [t \in Threads |-> 1]
        /\ why = [t \in Threads |-> "none"]
        /\ limitsHit = [t \in Threads |-> {}]
        /\ closePc = "idle"
        /\ snap = <<>>
        /\ nHost = 1 /\ nSubmit = 1 /\ nFollow = 0 /\ nSteer = 0 /\ nComplete = 1
        /\ lastOutput = <<>>

(* executeSingleTool that returns the raw output as the result. *)
ExecuteToolOutput_RawToModel(t, i) ==
    /\ pc[t] = "tools"
    /\ i \in 1..Len(toolCalls[t])
    /\ results[t][i] = Pending
    /\ toolCalls[t][i].Name \in Registered
    /\ LET rawOutput == RawOutput(toolCalls[t][i])
           truncatedOutput ==
               TruncateToolOutput(rawOutput, toolCalls[t][i].Name,
                                  config.ToolOutputLimits, config.ToolLineLimits)
       IN  /\ Emit(t, "tool_call_end")
           /\ lastOutput' = rawOutput
           /\ results' = [results EXCEPT ![t][i] =
                             [ToolCallID |-> toolCalls[t][i].ID,
                              Content |-> rawOutput,
                              IsError |-> FALSE]]
    /\ UNCHANGED <<state, history, steeringQueue, followupQueue, abortSignaled,
                   config, emClosed, pc, userInput, roundCount, aborted, messages,
                   drainRet, request, toolCalls, loopHit, ctxDone, ret, llmOutcome,
                   llmCalls, histAtCall, why, limitsHit, closePc, snap, nHost,
                   nSubmit, nFollow, nSteer, nComplete, emitterVars,
                   otherVars>>

(* executeSingleTool (session.go:441-476) for a registered tool whose
   executor returns output: the output is truncated with the configured
   limits, tool_call_end carries the raw output, the result the truncated
   one. *)
ExecuteToolOutput(t, i) ==
    /\ pc[t] = "tools"
    /\ i \in 1..Len(toolCalls[t])
    /\ results[t][i] = Pending
    /\ toolCalls[t][i].Name \in Registered
    /\ LET rawOutput == RawOutput(toolCalls[t][i])
           truncatedOutput ==
               TruncateToolOutput(rawOutput, toolCalls[t][i].Name,
                                  config.ToolOutputLimits, config.ToolLineLimits)
       IN  /\ Emit(t, "tool_call_end")
           /\ lastOutput' = rawOutput
           /\ results' = [results EXCEPT ![t][i] =
                             [ToolCallID |-> toolCalls[t][i].ID,
                              Content |-> truncatedOutput,
                              IsError |-> FALSE]]
    /\ UNCHANGED <<state, history, steeringQueue, followupQueue, abortSignaled,
                   config, emClosed, pc, userInput, roundCount, aborted, messages,
                   drainRet, request, toolCalls, loopHit, ctxDone, ret, llmOutcome,
                   llmCalls, histAtCall, why, limitsHit, closePc, snap, nHost,
                   nSubmit, nFollow, nSteer, nComplete, emitterVars,
                   otherVars>>

NextTool ==
    \/ \E t \in Threads, i \in 1..MaxCalls : ExecuteToolOutput(t, i)
    \/ \E t \in Threads : AppendToolResults(t)
    \/ \E t \in Threads : DrainSteering(t)
    \/ \E t \in Threads : LoopDetect(t)
    \/ \E t \in Threads : CheckRounds(t)
    \/ \E t \in Threads : CheckTurns(t)
    \/ \E t \in Threads : StartComplete(t)

SpecTool == InitTool /\ [][NextTool]_vars

-----------------------------------------------------------------------------
(* The event emitter on its own (truncation.go:213-265): goroutines call Emit
   and Close at will, the host receives from Events(). Emit and Close run
   under EventEmitter.mu; an event is the number of its Emit call among those
   that built one. *)

sessionRest == <<state, history, steeringQueue, followupQueue, abortSignaled,
                 config, lastEmit, pc, userInput, roundCount, aborted, messages,
                 drainRet, request, toolCalls, results, loopHit, ctxDone, ret,
                 llmOutcome, llmCalls, histAtCall, why, limitsHit, closePc, snap,
                 nHost, nSubmit, nFollow, nSteer, nComplete, lastOutput,
                 otherVars>>

InitEmitter ==
    /\ NewSession(Config(2, 0, TRUE, 4, FALSE))
    /\ \E bufferSize \in 0..MaxBuffer : NewEventEmitter(bufferSize)
    /\ NoCall
    /\ NoSubagents
    /\ NoLibraryCalls

EmGoto(g, p) == emPc' = [emPc EXCEPT ![g] = p]

(* A goroutine calls Emit and waits for e.mu. *)
EmitCall(g) ==
    /\ emPc[g] = "idle"
    /\ emCalls.Emit + emCalls.Close < MaxEmitterCalls
    /\ emCalls' = [emCalls EXCEPT !.Emit = @ + 1]
    /\ EmGoto(g, "emit_lock")
    /\ UNCHANGED <<sessionRest, emClosed, emCh, emCap, emDelivered, emCloses,
                   emFault, emSeq, emMu>>

(* An Emit that does not take e.mu. *)
EmitLock_NoMutex(g) ==
    /\ emPc[g] = "emit_lock"
    /\ emMu' = emMu
    /\ EmGoto(g, "emit_check")
    /\ UNCHANGED <<sessionRest, emClosed, emCh, emCap, emDelivered, emCloses,
                   emFault, emSeq, emCalls>>

(* e.mu.Lock() of Emit (truncation.go:234). *)
EmitLock(g) ==
    /\ emPc[g] = "emit_lock"
    /\ emMu = NoGoroutine
    /\ emMu' = g
    /\ EmGoto(g, "emit_check")
    /\ UNCHANGED <<sessionRest, emClosed, emCh, emCap, emDelivered, emCloses,
                   emFault, emSeq, emCalls>>

(* truncation.go:236-244: a closed emitter returns (the deferred Unlock
   runs); otherwise the event is built. *)
EmitCheck(g) ==
    /\ emPc[g] = "emit_check"
    /\ IF emClosed
       THEN /\ emMu' = NoGoroutine
            /\ emSeq' = emSeq
            /\ EmGoto(g, "idle")
       ELSE /\ emSeq' = emSeq + 1
            /\ emMu' = emMu
            /\ EmGoto(g, "emit_send")
    /\ UNCHANGED <<sessionRest, emClosed, emCh, emCap, emDelivered, emCloses,
                   emFault, emCalls>>

(* An Emit that makes room by discarding the oldest buffered event. *)
EmitSend_DropsOldest(g) ==
    /\ emPc[g] = "emit_send"
    /\ IF emCloses > 0
       THEN emFault' = TRUE /\ emCh' = emCh
       ELSE /\ emFault' = emFault
            /\ emCh' = IF Len(emCh) < emCap THEN Append(emCh, emSeq)
                       ELSE Append(Tail(emCh), emSeq)
    /\ emMu' = NoGoroutine
    /\ EmGoto(g, "idle")
    /\ UNCHANGED <<sessionRest, emClosed, emCap, emDelivered, emCloses, emSeq,
                   emCalls>>

(* truncation.go:245-250: select with a default case: the event goes into the
   buffer when there is room and is dropped otherwise; a send on a closed
   channel is a run-time panic. Then the deferred Unlock. *)
EmitSend(g) ==
    /\ emPc[g] = "emit_send"
    /\ IF emCloses > 0
       THEN emFault' = TRUE /\ emCh' = emCh
       ELSE /\ emFault' = emFault
            /\ emCh' = IF Len(emCh) < emCap THEN Append(emCh, emSeq) ELSE emCh
    /\ emMu' = NoGoroutine
    /\ EmGoto(g, "idle")
    /\ UNCHANGED <<sessionRest, emClosed, emCap, emDelivered, emCloses, emSeq,
                   emCalls>>

(* A goroutine calls EventEmitter.Close and waits for e.mu. *)
EmitterCloseCall(g) ==
    /\ emPc[g] = "idle"
    /\ emCalls.Emit + emCalls.Close < MaxEmitterCalls
    /\ emCalls' = [emCalls EXCEPT !.Close = @ + 1]
    /\ EmGoto(g, "close_lock")
    /\ UNCHANGED <<sessionRest, emClosed, emCh, emCap, emDelivered, emCloses,
                   emFault, emSeq, emMu>>

(* e.mu.Lock() of Close (truncation.go:259). *)
EmitterCloseLock(g) ==
    /\ emPc[g] = "close_lock"
    /\ emMu = NoGoroutine
    /\ emMu' = g
    /\ EmGoto(g, "close_check")
    /\ UNCHANGED <<sessionRest, emClosed, emCh, emCap, emDelivered, emCloses,
                   emFault, emSeq, emCalls>>

(* truncation.go:261-264: the first Close sets closed and closes the channel;
   then the deferred Unlock. *)
EmitterClose(g) ==
    /\ emPc[g] = "close_check"
    /\ IF ~emClosed
       THEN emClosed' = TRUE /\ emCloses' = emCloses + 1
       ELSE emClosed' = emClosed /\ emCloses' = emCloses
    /\ emMu' = NoGoroutine
    /\ EmGoto(g, "idle")
    /\ UNCHANGED <<sessionRest, emCh, emCap, emDelivered, emFault, emSeq, emCalls>>

(* The host receives the next buffered event from Events(); a closed channel
   still hands out what it holds. *)
Receive ==
    /\ Len(emCh) > 0
    /\ emDelivered' = Append(emDelivered, Head(emCh))
    /\ emCh' = Tail(emCh)
    /\ UNCHANGED <<sessionRest, emClosed, emCap, emCloses, emFault, emSeq, emPc,
                   emMu, emCalls>>

NextEmitter ==
    \/ \E g \in EmGoroutines : EmitCall(g)
    \/ \E g \in EmGoroutines : EmitLock(g)
    \/ \E g \in EmGoroutines : EmitCheck(g)
    \/ \E g \in EmGoroutines : EmitSend(g)
    \/ \E g \in EmGoroutines : EmitterCloseCall(g)
    \/ \E g \in EmGoroutines : EmitterCloseLock(g)
    \/ \E g \in EmGoroutines : EmitterClose(g)
    \/ Receive

SpecEmitter == InitEmitter /\ [][NextEmitter]_vars

-----------------------------------------------------------------------------
(* DetectLoop on its own (profile_gemini.go:309-360): a history and a window
   are given, the detector is applied to them. *)

calleeVars == <<mainVars, lastOutput, emitterVars, subVars, libVars>>

(* The tool calls the Completer asks for in these histories. *)
LoopCalls == {ToolCall("c", "shell", "ls"), ToolCall("c", "shell", "pwd"),
              ToolCall("c", "grep", "ls")}

CallLists == UNION {[1..n -> LoopCalls] : n \in 0..MaxSigs}

(* The history of a Submit whose Completer answered with the given calls, at
   most perTurn of them in one response: the user's turn, then an Assistant
   turn and a ToolResults turn for every response. *)
RECURSIVE Rounds(_, _)
Rounds(calls, perTurn) ==
    IF calls = <<>> THEN <<>>
    ELSE LET n == IF Len(calls) < perTurn THEN Len(calls) ELSE perTurn
             tcs == SubSeq(calls, 1, n)
         IN  <<NewAssistantTurn(AssistantText, tcs),
               NewToolResultsTurn([i \in 1..n |->
                   [ToolCallID |-> tcs[i].ID, Content |-> <<>>, IsError |-> FALSE]])>>
             \o Rounds(SubSeq(calls, n + 1, Len(calls)), perTurn)

HistoryOf(calls, perTurn) == <<NewUserTurn(SubmitText(1))>> \o Rounds(calls, perTurn)

InitLoop ==
    /\ NewSession(Config(2, 0, TRUE, 4, FALSE))
    /\ NewEventEmitter(EventBufferSize)
    /\ NoSubagents
    /\ NoLibraryCalls
    /\ \E calls \in CallLists, perTurn \in 1..3, windowSize \in 1..MaxWindow :
          fnArgs = [history |-> HistoryOf(calls, perTurn), windowSize |-> windowSize]
    /\ fnResult = <<>>

ApplyDetectLoop ==
    /\ fnResult = <<>>
    /\ fnResult' = <<DetectLoop(fnArgs.history, fnArgs.windowSize)>>
    /\ UNCHANGED <<calleeVars, fnArgs>>

NextLoop == ApplyDetectLoop

SpecLoop == InitLoop /\ [][NextLoop]_vars

(* Step 9 of processInput (session.go:334-352) as a function of the
   session's configuration and history: with loop detection enabled
   DetectLoop runs on a copy of the history and a hit appends the warning;
   a panic of DetectLoop ends the goroutine of Submit (nothing in the package
   recovers), so the round is not completed.  The windows include 0, the
   zero value of SessionConfig.LoopDetectionWindow, and negative values:
   NewSession takes the caller's configuration as it is (session.go:73-76). *)
InitLoopStep ==
    /\ NewSession(Config(2, 0, TRUE, 4, FALSE))
    /\ NewEventEmitter(EventBufferSize)
    /\ NoSubagents
    /\ NoLibraryCalls
    /\ \E calls \in CallLists, enableLoop \in BOOLEAN,
          loopWindow \in (0 - MaxWindow)..MaxWindow :
          fnArgs = [history |-> HistoryOf(calls, 1), enableLoop |-> enableLoop,
                    loopWindow |-> loopWindow]
    /\ fnResult = <<>>

LoopDetectionStep ==
    /\ fnResult = <<>>
    /\ fnResult' =
          IF fnArgs.enableLoop /\ DetectLoopPanics(fnArgs.history, fnArgs.loopWindow)
          THEN <<[panic |-> TRUE, history |-> fnArgs.history]>>
          ELSE <<[panic |-> FALSE,
                  history |->
                     IF fnArgs.enableLoop
                        /\ DetectLoop(fnArgs.history, fnArgs.loopWindow)
                     THEN Append(fnArgs.history, NewSteeringTurn(LoopWarning))
                     ELSE fnArgs.history]>>
    /\ UNCHANGED <<calleeVars, fnArgs>>

NextLoopStep == LoopDetectionStep

SpecLoopStep == InitLoopStep /\ [][NextLoopStep]_vars

-----------------------------------------------------------------------------
(* The environment ExecCommand gives the child (src/unnamed/part_003). A
   string is the sequence of its characters. *)

LowerCase == <<"a", "b", "c", "d", "e", "f", "g", "h", "i", "j", "k", "l", "m", "n", "o", "p", "q", "r", "s", "t", "u", "v", "w", "x", "y", "z">>
UpperCase == <<"A", "B", "C", "D", "E", "F", "G", "H", "I", "J", "K", "L", "M", "N", "O", "P", "Q", "R", "S", "T", "U", "V", "W", "X", "Y", "Z">>

(* strings.ToUpper on the letters of these names. *)
ToUpper(str) ==
    [i \in 1..Len(str) |->
        IF \E k \in 1..Len(LowerCase) : LowerCase[k] = str[i]
        THEN UpperCase[CHOOSE k \in 1..Len(LowerCase) : LowerCase[k] = str[i]]
        ELSE str[i]]

HasSuffix(str, suffix) ==
    /\ Len(str) >= Len(suffix)
    /\ SubSeq(str, Len(str) - Len(suffix) + 1, Len(str)) = suffix

sensitiveEnvPatterns ==
    <<<<"_", "A", "P", "I", "_", "K", "E", "Y">>,
      <<"_", "S", "E", "C", "R", "E", "T">>,
      <<"_", "T", "O", "K", "E", "N">>,
      <<"_", "P", "A", "S", "S", "W", "O", "R", "D">>,
      <<"_", "C", "R", "E", "D", "E", "N", "T", "I", "A", "L">>>>

safeEnvVars ==
    {<<"P", "A", "T", "H">>,
     <<"H", "O", "M", "E">>,
     <<"U", "S", "E", "R">>,
     <<"S", "H", "E", "L", "L">>,
     <<"L", "A", "N", "G">>,
     <<"T", "E", "R", "M">>,
     <<"T", "M", "P", "D", "I", "R">>,
     <<"G", "O", "P", "A", "T", "H">>,
     <<"G", "O", "R", "O", "O", "T">>,
     <<"C", "A", "R", "G", "O", "_", "H", "O", "M", "E">>,
     <<"N", "V", "M", "_", "D", "I", "R">>,
     <<"R", "U", "S", "T", "U", "P", "_", "H", "O", "M", "E">>,
     <<"P", "Y", "E", "N", "V", "_", "R", "O", "O", "T">>,
     <<"X", "D", "G", "_", "C", "O", "N", "F", "I", "G", "_", "H", "O", "M", "E">>,
     <<"X", "D", "G", "_", "D", "A", "T", "A", "_", "H", "O", "M", "E">>,
     <<"X", "D", "G", "_", "C", "A", "C", "H", "E", "_", "H", "O", "M", "E">>}

isSensitiveEnvVar_CaseSensitive(name) ==
    \E k \in 1..Len(sensitiveEnvPatterns) : HasSuffix(name, sensitiveEnvPatterns[k])

isSensitiveEnvVar(name) ==
    LET upper == ToUpper(name)
    IN  \E k \in 1..Len(sensitiveEnvPatterns) : HasSuffix(upper, sensitiveEnvPatterns[k])

(* strings.SplitN(env, "=", 2): the text before the first "=" and the rest,
   or the whole text alone when it has no "=". *)
SplitN2(env) ==
    IF \E i \in 1..Len(env) : env[i] = "="
    THEN LET at == CHOOSE i \in 1..Len(env) :
                       env[i] = "=" /\ \A j \in 1..(i - 1) : env[j] # "="
         IN  <<SubSeq(env, 1, at - 1), SubSeq(env, at + 1, Len(env))>>
    ELSE <<env>>

(* filterEnvironment over the entries of os.Environ(). *)
RECURSIVE filterEnvironment(_)
filterEnvironment(environ) ==
    IF environ = <<>> THEN <<>>
    ELSE LET env == Head(environ)
             parts == SplitN2(env)
             rest == filterEnvironment(Tail(environ))
         IN  IF Len(parts) # 2 THEN rest
             ELSE IF parts[1] \in safeEnvVars \/ ~isSensitiveEnvVar(parts[1])
                  THEN <<env>> \o rest
                  ELSE rest

(* The entries os.Environ() can hold in these runs, and the variables a
   caller passes in envVars. *)
EnvEntries ==
    {<<"P", "A", "T", "H", "=", "v">>,
     <<"M", "Y", "_", "A", "P", "I", "_", "K", "E", "Y", "=", "v">>,
     <<"d", "b", "_", "p", "a", "s", "s", "w", "o", "r", "d", "=", "v">>,
     <<"G", "h", "_", "T", "o", "k", "e", "n", "=", "a", "=", "b">>,
     <<"T", "O", "K", "E", "N", "=", "v">>,
     <<"_", "S", "E", "C", "R", "E", "T", "=", "v">>,
     <<"S", "E", "C", "R", "E", "T", "_", "X", "=", "v">>,
     <<"A", "W", "S", "_", "C", "R", "E", "D", "E", "N", "T", "I", "A", "L", "S", "=", "v">>,
     <<"N", "O", "E", "Q">>}

OverrideNames == {<<"M", "Y", "_", "A", "P", "I", "_", "K", "E", "Y">>, <<"F", "O", "O">>}
OverrideValue == <<"o">>

Environs ==
    {environ \in UNION {[1..n -> EnvEntries] : n \in 0..MaxEnviron} :
        \A i, j \in 1..Len(environ) : i # j => environ[i] # environ[j]}

RECURSIVE Orders(_)
Orders(S) ==
    IF S = {} THEN {<<>>}
    ELSE UNION {{<<x>> \o o : o \in Orders(S \ {x})} : x \in S}

InitEnv ==
    /\ NewSession(Config(2, 0, TRUE, 4, FALSE))
    /\ NewEventEmitter(EventBufferSize)
    /\ NoSubagents
    /\ NoLibraryCalls
    /\ \E environ \in Environs, names \in SUBSET OverrideNames :
          fnArgs = [environ |-> environ, envVars |-> [k \in names |-> OverrideValue]]
    /\ fnResult = <<>>

(* ExecCommand (part_003:264-269): cmd.Env is the filtered environment, then
   k=v for every entry of envVars, in the order the range over the map
   yields them. *)
ExecCommand ==
    /\ fnResult = <<>>
    /\ \E order \in Orders(DOMAIN fnArgs.envVars) :
          fnResult' = <<filterEnvironment(fnArgs.environ)
                         \o [i \in 1..Len(order) |->
                                order[i] \o <<"=">> \o fnArgs.envVars[order[i]]]>>
    /\ UNCHANGED <<calleeVars, fnArgs>>

NextEnv == ExecCommand

SpecEnv == InitEnv /\ [][NextEnv]_vars

-----------------------------------------------------------------------------
(* The timeout of the shell tool (core_tools.go:243-257). A parsed JSON value
   is a number or something else. *)

JSONNumber(n) == [type |-> "number", n |-> n]
JSONString == [type |-> "string"]

(* GetIntArg (profile_gemini.go:517-536): the number and true, or 0 and
   false when the key is absent or the value is no number. *)
GetIntArg(args, key) ==
    IF key \notin DOMAIN args THEN <<0, FALSE>>
    ELSE IF args[key].type = "number" THEN <<args[key].n, TRUE>>
    ELSE <<0, FALSE>>

(* A shell tool that does not cap the timeout. *)
ShellTimeout_NoCap(args, defaultTimeoutMs, maxTimeoutMs) ==
    LET timeoutMs == GetIntArg(args, "timeout_ms")[1]
    IN  IF timeoutMs <= 0 THEN defaultTimeoutMs ELSE timeoutMs

(* The timeoutMs the shell executor hands to ExecCommand. *)
ShellTimeout(args, defaultTimeoutMs, maxTimeoutMs) ==
    LET timeoutMs == GetIntArg(args, "timeout_ms")[1]
        atLeast == IF timeoutMs <= 0 THEN defaultTimeoutMs ELSE timeoutMs
    IN  IF atLeast > maxTimeoutMs THEN maxTimeoutMs ELSE atLeast

(* The arguments of a shell call: a command, with or without timeout_ms. *)
ShellArgs ==
    {[command |-> JSONString]}
    \cup {[command |-> JSONString, timeout_ms |-> v] :
             v \in {JSONString} \cup {JSONNumber(n) : n \in -1..(MaxTimeoutMs + 1)}}

InitShell ==
    /\ NewSession(Config(2, 0, TRUE, 4, FALSE))
    /\ NewEventEmitter(EventBufferSize)
    /\ NoSubagents
    /\ NoLibraryCalls
    /\ \E args \in ShellArgs, defaultTimeoutMs \in 1..MaxTimeoutMs :
       \E maxTimeoutMs \in defaultTimeoutMs..MaxTimeoutMs :
          fnArgs = [args |-> args, defaultTimeoutMs |-> defaultTimeoutMs,
                    maxTimeoutMs |-> maxTimeoutMs]
    /\ fnResult = <<>>

ShellExecutor ==
    /\ fnResult = <<>>
    /\ fnResult' = <<ShellTimeout(fnArgs.args, fnArgs.defaultTimeoutMs,
                                  fnArgs.maxTimeoutMs)>>
    /\ UNCHANGED <<calleeVars, fnArgs>>

NextShell == ShellExecutor

SpecShell == InitShell /\ [][NextShell]_vars

-----------------------------------------------------------------------------
(* Subagents (subagent.go). Session 0 is the root session the host made with
   NewSession; session i > 0 is the child session of handle i. All sessions
   share the profile the root was made with, and so its ToolRegistry
   (subagent.go:77, 201; session.go:92, 428). A child's own Submit is a
   background goroutine whose outcome is left open. *)

SubAgentRunning == "running"
SubAgentCompleted == "completed"
SubAgentFailed == "failed"

Root == 0
Host == -2          \* stands for a caller that is no session
Sessions == 0..Len(subAgents)

(* SubAgentManager.depth and maxDepth of a session's manager
   (NewSubAgentManager(cfg.MaxSubagentDepth, cfg.subagentDepth)). *)
Depth(s) == IF s = Root THEN 0 ELSE subAgents[s].Depth
ManagerMaxDepth(s) == IF s = Root THEN subMaxDepth ELSE subAgents[s].MaxDepth

CanSpawn(m) == Depth(m) < ManagerMaxDepth(m)

(* m.agents of session m's manager. *)
Agents(m) == {i \in 1..Len(subAgents) : subAgents[i].Owner = m}

(* handle.Result: nil, or a pointer to a result. *)
NoResult == <<>>
SubAgentResult(success) ==
    <<[Success |-> success,
       Output |-> IF success THEN "lastText" ELSE "Error: err",
       TurnsUsed |-> "len(History())"]>>

(* The handle Spawn makes (subagent.go:69-84), with the goroutine that runs
   the child's Submit. *)
SubAgentHandle(owner) ==
    [Owner |-> owner,
     Depth |-> Depth(owner) + 1, MaxDepth |-> ManagerMaxDepth(owner),
     Status |-> SubAgentRunning, Result |-> NoResult, Cancelled |-> FALSE,
     Worker |-> "submit", Err |-> FALSE]

(* What a call hands back: an error or not, its message, and what the
   message is about. *)
Returns(caller, tool, err, msg, about) ==
    subRet' = [Caller |-> caller, Tool |-> tool, Err |-> err, Msg |-> msg]
              @@ about @@ NoReturn

(* A session whose Submit is running and is not inside a blocking tool call:
   the root whenever the host submits, a child until its Submit returns. *)
Dispatching(d) ==
    /\ d \in Sessions
    /\ IF d = Root THEN TRUE ELSE subAgents[d].Worker = "submit"
    /\ \A w \in subWait : w.Caller # d

(* NewSession of the root (session.go:87-93): the subagent tools are
   registered with the root's manager when it can spawn. *)
InitSub ==
    /\ NewSession(Config(2, 0, TRUE, 4, FALSE))
    /\ NewEventEmitter(EventBufferSize)
    /\ NoCall
    /\ NoLibraryCalls
    /\ subMaxDepth \in 0..MaxDepthConfig
    /\ subAgents = <<>>
    /\ subRegistry = (IF 0 < subMaxDepth THEN Root ELSE NoManager)
    /\ subWait = {}
    /\ subRet = NoReturn
    /\ subCalls = 0

subRest == <<mainVars, lastOutput, emitterVars, fnVars, libVars, subMaxDepth>>

(* One more call of Spawn or of a subagent tool. *)
SubCall == subCalls < MaxSubCalls /\ subCalls' = subCalls + 1

(* A Spawn that does not ask CanSpawn. *)
Spawn_NoDepthCheck(m, d) ==
    /\ Len(subAgents) < MaxAgents
    /\ LET handle == SubAgentHandle(m)
           id == Len(subAgents) + 1
       IN  /\ subAgents' = Append(subAgents, handle)
           /\ subRegistry' = IF handle.Depth < handle.MaxDepth THEN id ELSE subRegistry
           /\ Returns(d, "Spawn", FALSE, "spawned", [Mgr |-> m, ID |-> id])
    /\ UNCHANGED <<subRest, subWait>>

(* SubAgentManager.Spawn on the manager of session m (subagent.go:61-124):
   an error when the manager cannot spawn; otherwise a handle, a child
   session one level deeper made by NewSession, which registers the subagent
   tools with its own manager in the shared registry when it can spawn
   itself, and a goroutine for the child's Submit. *)
Spawn(m, d) ==
    /\ IF ~CanSpawn(m)
       THEN /\ Returns(d, "Spawn", TRUE, "maximum subagent depth reached",
                       [Mgr |-> m])
            /\ UNCHANGED <<subAgents, subRegistry>>
       ELSE LET handle == SubAgentHandle(m)
                id == Len(subAgents) + 1
            IN  /\ Len(subAgents) < MaxAgents
                /\ subAgents' = Append(subAgents, handle)
                /\ subRegistry' = IF handle.Depth < handle.MaxDepth THEN id
                                  ELSE subRegistry
                /\ Returns(d, "Spawn", FALSE, "spawned", [Mgr |-> m, ID |-> id])
    /\ UNCHANGED <<subRest, subWait>>

(* Code of the package calls Spawn on the manager of an existing session. *)
SpawnCall(m) ==
    /\ m \in Sessions
    /\ SubCall
    /\ Spawn(m, Host)

(* The model of session d calls spawn_agent: executeSingleTool looks the
   name up in the profile's registry (session.go:428) and runs the executor
   found there, which calls Spawn on the manager it was registered with
   (subagent.go:201). *)
SpawnAgentTool(d) ==
    /\ Dispatching(d)
    /\ SubCall
    /\ subRegistry # NoManager
    /\ Spawn(subRegistry, d)

(* The model of session d calls a subagent tool when none is registered
   (session.go:429-440). *)
UnknownSubagentTool(d) ==
    /\ Dispatching(d)
    /\ SubCall
    /\ subRegistry = NoManager
    /\ Returns(d, "spawn_agent", TRUE, "Unknown tool", <<>>)
    /\ UNCHANGED <<subRest, subAgents, subRegistry, subWait>>

(* The goroutine of Spawn: the child's Submit returns, with an error or
   without (subagent.go:92). *)
SubmitReturns(i, err) ==
    /\ i \in 1..Len(subAgents)
    /\ subAgents[i].Worker = "submit"
    /\ \A w \in subWait : w.Caller # i
    /\ subAgents' = [subAgents EXCEPT ![i].Worker = "returned", ![i].Err = err]
    /\ UNCHANGED <<subRest, subRegistry, subWait, subRet, subCalls>>

(* subagent.go:93-120: under handle.mu, status and result by the outcome. *)
WorkerRecord(i) ==
    /\ i \in 1..Len(subAgents)
    /\ subAgents[i].Worker = "returned"
    /\ subAgents' = [subAgents EXCEPT
                        ![i].Worker = "done",
                        ![i].Status = IF subAgents[i].Err THEN SubAgentFailed
                                      ELSE SubAgentCompleted,
                        ![i].Result = SubAgentResult(~subAgents[i].Err)]
    /\ UNCHANGED <<subRest, subRegistry, subWait, subRet, subCalls>>

(* close_agent called by the model of session d (subagent.go:308-319), first
   part of SubAgentManager.Close (134-142): the lookup in the manager the
   tool was registered with, an error for an unknown id, else cancel(). *)
CloseAgentTool(d, id) ==
    /\ Dispatching(d)
    /\ SubCall
    /\ subRegistry # NoManager
    /\ IF id \in Agents(subRegistry)
       THEN /\ subAgents' = [subAgents EXCEPT ![id].Cancelled = TRUE]
            /\ subWait' = subWait \cup {[Caller |-> d, Op |-> "close", Agent |-> id]}
            /\ subRet' = subRet
       ELSE /\ Returns(d, "close_agent", TRUE, "not found", [ID |-> id])
            /\ UNCHANGED <<subAgents, subWait>>
    /\ UNCHANGED <<subRest, subRegistry>>

(* Second part of Close (subagent.go:143-148): under handle.mu, a running
   handle becomes failed. *)
CloseMark(d) ==
    \E w \in subWait :
        /\ w.Caller = d /\ w.Op = "close"
        /\ subAgents' = [subAgents EXCEPT ![w.Agent].Status =
                            IF @ = SubAgentRunning THEN SubAgentFailed ELSE @]
        /\ subWait' = subWait \ {w}
        /\ Returns(d, "close_agent", FALSE, "terminated", [ID |-> w.Agent])
        /\ UNCHANGED <<subRest, subRegistry, subCalls>>

(* wait called by the model of session d (subagent.go:261-271): the lookup,
   an error for an unknown id, else the polling loop is entered. *)
WaitTool(d, id) ==
    /\ Dispatching(d)
    /\ SubCall
    /\ subRegistry # NoManager
    /\ IF id \in Agents(subRegistry)
       THEN /\ subWait' = subWait \cup {[Caller |-> d, Op |-> "wait", Agent |-> id]}
            /\ subRet' = subRet
       ELSE /\ Returns(d, "wait", TRUE, "not found", [ID |-> id])
            /\ subWait' = subWait
    /\ UNCHANGED <<subRest, subAgents, subRegistry>>

(* A wait that returns whatever the status is. *)
WaitPoll_NoCheck(d) ==
    \E w \in subWait :
        /\ w.Caller = d /\ w.Op = "wait"
        /\ Returns(d, "wait", FALSE, "Status",
                   [ID |-> w.Agent, Status |-> subAgents[w.Agent].Status,
                    Result |-> subAgents[w.Agent].Result])
        /\ subWait' = subWait \ {w}
        /\ UNCHANGED <<subRest, subAgents, subRegistry, subCalls>>

(* One round of the polling loop that finds the status not running and
   returns it, with the result when there is one (subagent.go:274-286); a
   round that finds it running changes nothing. *)
WaitPoll(d) ==
    \E w \in subWait :
        /\ w.Caller = d /\ w.Op = "wait"
        /\ subAgents[w.Agent].Status # SubAgentRunning
        /\ Returns(d, "wait", FALSE, "Status",
                   [ID |-> w.Agent, Status |-> subAgents[w.Agent].Status,
                    Result |-> subAgents[w.Agent].Result])
        /\ subWait' = subWait \ {w}
        /\ UNCHANGED <<subRest, subAgents, subRegistry, subCalls>>

NextSub ==
    \/ \E m \in 0..MaxAgents : SpawnCall(m)
    \/ \E d \in 0..MaxAgents : SpawnAgentTool(d)
    \/ \E d \in 0..MaxAgents : UnknownSubagentTool(d)
    \/ \E i \in 1..MaxAgents, err \in BOOLEAN : SubmitReturns(i, err)
    \/ \E i \in 1..MaxAgents : WorkerRecord(i)
    \/ \E d \in 0..MaxAgents, id \in 1..MaxAgents : CloseAgentTool(d, id)
    \/ \E d \in 0..MaxAgents : CloseMark(d)
    \/ \E d \in 0..MaxAgents, id \in 1..MaxAgents : WaitTool(d, id)
    \/ \E d \in 0..MaxAgents : WaitPoll(d)

SpecSub == InitSub /\ [][NextSub]_vars

(* The scheduler lets the goroutine of Spawn and a polling wait run. *)
SubFairness ==
    /\ \A i \in 1..MaxAgents : WF_vars(WorkerRecord(i))
    /\ \A d \in 0..MaxAgents : WF_vars(WaitPoll(d))

SpecSubFair == SpecSub /\ SubFairness

-----------------------------------------------------------------------------
(* The configuration of a child session made through spawn_agent
   (subagent.go:186-206 and 69-77). *)

SubagentMaxTurns == 50

(* The arguments of a spawn_agent call: with or without a task, with or
   without max_turns. *)
SpawnArgs ==
    LET maxTurns == {JSONString} \cup {JSONNumber(n) : n \in -1..MaxTurnsArg}
    IN  {<<>>, [task |-> JSONString]}
        \cup {[max_turns |-> v] : v \in maxTurns}
        \cup {[task |-> JSONString, max_turns |-> v] : v \in maxTurns}

(* DefaultSessionConfig (session.go:39-49), the fields a child's limits
   depend on. *)
DefaultSessionConfig == [MaxTurns |-> 0, MaxSubagentDepth |-> 1, subagentDepth |-> 0]

(* The config the spawn_agent executor hands to Spawn (subagent.go:196-199). *)
SpawnAgentConfig(args) ==
    LET maxTurns == GetIntArg(args, "max_turns")
    IN  IF maxTurns[2] /\ maxTurns[1] > 0
        THEN [DefaultSessionConfig EXCEPT !.MaxTurns = maxTurns[1]]
        ELSE DefaultSessionConfig

(* The config Spawn gives the child session (subagent.go:69-75): the caller's,
   with the three assignments that follow the copy. *)
SubConfig(given, depth, maxDepth) ==
    [given EXCEPT !.MaxTurns = SubagentMaxTurns,
                   !.MaxSubagentDepth = maxDepth,
                   !.subagentDepth = depth + 1]

InitSpawn ==
    /\ NewSession(Config(2, 0, TRUE, 4, FALSE))
    /\ NewEventEmitter(EventBufferSize)
    /\ NoSubagents
    /\ NoLibraryCalls
    /\ \E args \in SpawnArgs, depth \in 0..MaxDepthConfig :
       \E maxDepth \in depth..MaxDepthConfig :
          fnArgs = [args |-> args, depth |-> depth, maxDepth |-> maxDepth]
    /\ fnResult = <<>>

(* The spawn_agent executor up to the child's NewSession: "task is required"
   without a task, Spawn's error at the depth limit, else the child's config. *)
SpawnAgentExecutor ==
    /\ fnResult = <<>>
    /\ fnResult' =
          IF "task" \notin DOMAIN fnArgs.args
          THEN <<[Err |-> TRUE, Config |-> DefaultSessionConfig]>>
          ELSE IF ~(fnArgs.depth < fnArgs.maxDepth)
          THEN <<[Err |-> TRUE, Config |-> DefaultSessionConfig]>>
          ELSE <<[Err |-> FALSE,
                  Config |-> SubConfig(SpawnAgentConfig(fnArgs.args),
                                       fnArgs.depth, fnArgs.maxDepth)]>>
    /\ UNCHANGED <<calleeVars, fnArgs>>

NextSpawn == SpawnAgentExecutor

SpecSpawn == InitSpawn /\ [][NextSpawn]_vars

-----------------------------------------------------------------------------
(* Retry (unifiedllm, part_004:41-83). fnArgs is the policy; retry holds the
   locals of the call, the outcomes of the calls of fn so far and whether ctx
   is cancelled. Delays are whole seconds. *)

(* What fn returns: a result, or one of these errors. A RateLimitError may
   carry a Retry-After. *)
FnErrors ==
    {RetryErr("AuthenticationError", FALSE, -1), RetryErr("ServerError", TRUE, -1)}
    \cup {RetryErr("RateLimitError", TRUE, ra) : ra \in -1..(MaxPolicyDelay + 1)}
FnOK == RetryErr("nil", FALSE, -1)

InitRetry ==
    /\ NewSession(Config(2, 0, TRUE, 4, FALSE))
    /\ NewEventEmitter(EventBufferSize)
    /\ NoSubagents
    /\ \E maxRetries \in 0..MaxPolicyRetries, maxDelay \in 0..MaxPolicyDelay :
          fnArgs = [MaxRetries |-> maxRetries, MaxDelay |-> maxDelay]
    /\ fnResult = <<>>
    /\ NoLocking /\ NoRegistryCalls
    /\ retry = [pc |-> "first", attempt |-> 0, calls |-> 0, err |-> NoRetryErr,
                outs |-> <<>>, ctxDone |-> FALSE,
                ret |-> RetryReturn("none", NoRetryErr)]

retryRest == <<mainVars, lastOutput, emitterVars, fnVars, subVars, mu, muPc, reg>>

(* A call that is retried whether its error is retryable or not. *)
RetryLoop_IgnoresRetryable ==
    /\ retry.pc = "loop"
    /\ retry' =
          IF ~(retry.attempt < fnArgs.MaxRetries)
          THEN [retry EXCEPT !.pc = "done", !.ret = RetryReturn("error", retry.err)]
          ELSE [retry EXCEPT !.pc = "select"]
    /\ UNCHANGED retryRest

(* fn(ctx) at line 43 or 77, and the test of its error that follows; after
   the call at 77 the loop's attempt++ . *)
RetryCall ==
    /\ retry.pc \in {"first", "again"}
    /\ \E out \in FnErrors \cup {FnOK} :
          retry' =
            IF out = FnOK
            THEN [retry EXCEPT !.calls = @ + 1, !.outs = Append(@, out),
                               !.err = NoRetryErr, !.pc = "done",
                               !.ret = RetryReturn("result", NoRetryErr)]
            ELSE [retry EXCEPT !.calls = @ + 1, !.outs = Append(@, out),
                               !.err = out, !.pc = "loop",
                               !.attempt = IF retry.pc = "again" THEN @ + 1 ELSE @]
    /\ UNCHANGED retryRest

(* The head of the loop (lines 49-65): the loop condition, the test of
   IsRetryable, and the Retry-After of a rate limit error against MaxDelay. *)
RetryLoop ==
    /\ retry.pc = "loop"
    /\ retry' =
          IF ~(retry.attempt < fnArgs.MaxRetries)
          THEN [retry EXCEPT !.pc = "done", !.ret = RetryReturn("error", retry.err)]
          ELSE IF ~IsRetryable(retry.err)
          THEN [retry EXCEPT !.pc = "done", !.ret = RetryReturn("error", retry.err)]
          ELSE IF /\ retry.err.Type = "RateLimitError"
                  /\ retry.err.RetryAfter # -1
                  /\ retry.err.RetryAfter > fnArgs.MaxDelay
          THEN [retry EXCEPT !.pc = "done", !.ret = RetryReturn("error", retry.err)]
          ELSE [retry EXCEPT !.pc = "select"]
    /\ UNCHANGED retryRest

(* Entering the select (lines 71-75). With ctx cancelled already, ctx.Done()
   is ready; the timer may be ready as well by the time the select looks, and
   then either case is taken. Otherwise the goroutine blocks. *)
RetrySelect ==
    /\ retry.pc = "select"
    /\ IF retry.ctxDone
       THEN \/ retry' = [retry EXCEPT !.pc = "cancelled"]
            \/ retry' = [retry EXCEPT !.pc = "again"]
       ELSE retry' = [retry EXCEPT !.pc = "wait"]
    /\ UNCHANGED retryRest

(* The timer fires while the goroutine is blocked in the select. *)
RetryTimer ==
    /\ retry.pc = "wait"
    /\ retry' = [retry EXCEPT !.pc = "again"]
    /\ UNCHANGED retryRest

(* The caller cancels ctx; a goroutine blocked in the select takes the
   ctx.Done() case. *)
RetryCancel ==
    /\ ~retry.ctxDone
    /\ retry.pc # "done"
    /\ retry' = [retry EXCEPT !.ctxDone = TRUE,
                              !.pc = IF @ = "wait" THEN "cancelled" ELSE @]
    /\ UNCHANGED retryRest

(* The return of the ctx.Done() case (line 73). *)
RetryAbort ==
    /\ retry.pc = "cancelled"
    /\ retry' = [retry EXCEPT !.pc = "done",
                              !.ret = RetryReturn("request cancelled during retry",
                                                  RetryErr("AbortError", FALSE, -1))]
    /\ UNCHANGED retryRest

NextRetry ==
    \/ RetryCall
    \/ RetryLoop
    \/ RetrySelect
    \/ RetryTimer
    \/ RetryCancel
    \/ RetryAbort

SpecRetry == InitRetry /\ [][NextRetry]_vars

-----------------------------------------------------------------------------
(* Session.mu (session.go:65) looked at on its own. Every s.mu.Lock(), every
   s.mu.Unlock(), every call of the Completer and of a tool executor in
   Submit and the functions it calls is an instruction, named by the function
   (or the call site) and the source line; between two instructions a
   goroutine runs code that neither blocks nor touches the mutex. Goroutines:
   the one that runs Submit, two workers of executeToolCallsParallel, and the
   host with its other calls on the session. *)

Ins(op, next) == [op |-> op, next |-> next]

(* A function whose body is Lock, defer Unlock: State, History, Steer,
   FollowUp, Abort, SetReasoningEffort, countTurns. *)
LockDefer(site, line, after) ==
    (<<site, line>> :> Ins("Lock", {<<site, line + 1>>}))
    @@ (<<site, line + 1>> :> Ins("Unlock", after))

(* drainSteering (session.go:371-386), called at `site`. *)
drainSteeringCode(site, after) ==
    (<<site, 372>> :> Ins("Lock", {<<site, 376>>}))
    @@ (<<site, 376>> :> Ins("Unlock", {<<site, 379>>} \cup after))
    @@ (<<site, 379>> :> Ins("Lock", {<<site, 381>>}))
    @@ (<<site, 381>> :> Ins("Unlock", {<<site, 379>>} \cup after))

(* Submit (session.go:171-182) and the head of processInput (185-197). *)
SubmitCode ==
    (<<"Submit", 171>> :> Ins("Idle", {<<"Submit", 172>>}))
    @@ (<<"Submit", 172>> :> Ins("Lock", {<<"Submit", 174>>, <<"Submit", 179>>}))
    @@ (<<"Submit", 174>> :> Ins("Unlock", {<<"Submit", 171>>}))
    @@ (<<"Submit", 179>> :> Ins("Unlock", {<<"processInput", 187>>}))
    @@ (<<"processInput", 187>> :> Ins("Lock", {<<"processInput", 189>>}))
    @@ (<<"processInput", 189>> :> Ins("Unlock", {<<"drain 195", 372>>}))
    @@ drainSteeringCode("drain 195", {<<"processInput", 201>>})

(* The limits, the abort flag and the context (session.go:200-236);
   countTurns runs once for the comparison and once more for the event. *)
CheckLimitsCode ==
    LET on == {<<"processInput", 228>>, <<"processInput", 243>>,
               <<"processInput", 356>>}
    IN  (<<"processInput", 201>> :> Ins("Lock", {<<"processInput", 205>>}))
        @@ (<<"processInput", 205>> :>
                Ins("Unlock", on \cup {<<"countTurns 214", 480>>}))
        @@ LockDefer("countTurns 214", 480, on \cup {<<"countTurns 216", 480>>})
        @@ LockDefer("countTurns 216", 480, {<<"processInput", 356>>})
        @@ (<<"processInput", 228>> :> Ins("Lock", {<<"processInput", 230>>}))
        @@ (<<"processInput", 230>> :> Ins("Unlock", {<<"Submit", 171>>}))

(* The request with the reasoning effort read as the last thing before the
   Completer is called, the mutex still held. *)
BuildRequestCode_KeepsLock ==
    (<<"processInput", 243>> :> Ins("Lock", {<<"processInput", 247>>}))
    @@ (<<"processInput", 247>> :> Ins("Unlock", {<<"History 250", 117>>}))
    @@ LockDefer("History 250", 117, {<<"processInput", 262>>})
    @@ (<<"processInput", 262>> :> Ins("Lock", {<<"processInput", 278>>}))
    @@ (<<"processInput", 264>> :> Ins("Unlock", {<<"processInput", 278>>}))

(* The request (session.go:238-275). *)
BuildRequestCode ==
    (<<"processInput", 243>> :> Ins("Lock", {<<"processInput", 247>>}))
    @@ (<<"processInput", 247>> :> Ins("Unlock", {<<"History 250", 117>>}))
    @@ LockDefer("History 250", 117, {<<"processInput", 262>>})
    @@ (<<"processInput", 262>> :> Ins("Lock", {<<"processInput", 264>>}))
    @@ (<<"processInput", 264>> :> Ins("Unlock", {<<"processInput", 278>>}))

(* The Completer call, its errors, the assistant turn and checkContextUsage
   (session.go:277-318, 491-497). *)
CompleteCode ==
    (<<"processInput", 278>> :>
         Ins("Complete", {<<"processInput", 282>>, <<"Submit", 171>>,
                          <<"processInput", 307>>}))
    @@ (<<"processInput", 282>> :> Ins("Lock", {<<"processInput", 284>>}))
    @@ (<<"processInput", 284>> :> Ins("Unlock", {<<"Submit", 171>>}))
    @@ (<<"processInput", 307>> :> Ins("Lock", {<<"processInput", 309>>}))
    @@ (<<"processInput", 309>> :> Ins("Unlock", {<<"checkContextUsage", 493>>}))
    @@ (<<"checkContextUsage", 493>> :> Ins("Lock", {<<"checkContextUsage", 497>>}))
    @@ (<<"checkContextUsage", 497>> :>
            Ins("Unlock", {<<"processInput", 356>>, <<"executeToolCalls", 391>>}))

(* executeSingleTool (session.go:421-476) run by a goroutine that goes on at
   `after`: the executor, and the limits read under the mutex when it
   succeeded. *)
executeSingleToolCode(site, after) ==
    (<<site, 443>> :> Ins("Executor", {<<site, 458>>} \cup after))
    @@ (<<site, 458>> :> Ins("Lock", {<<site, 461>>}))
    @@ (<<site, 461>> :> Ins("Unlock", after))

(* executeToolCalls (session.go:390-417) and the ToolResults turn (321-332):
   the calls one after the other in the Submit goroutine, or each in a
   goroutine of its own. *)
ToolRoundCode ==
    (<<"executeToolCalls", 391>> :>
         Ins("Step", {<<"sequential", 443>>, <<"executeToolCalls", 410>>}))
    @@ executeSingleToolCode("sequential",
                             {<<"sequential", 443>>, <<"processInput", 327>>})
    @@ (<<"executeToolCalls", 410>> :> Ins("Go", {<<"executeToolCalls", 415>>}))
    @@ (<<"executeToolCalls", 415>> :> Ins("Wait", {<<"processInput", 327>>}))
    @@ (<<"processInput", 327>> :> Ins("Lock", {<<"processInput", 329>>}))
    @@ (<<"processInput", 329>> :> Ins("Unlock", {<<"drain 332", 372>>}))
    @@ drainSteeringCode("drain 332", {<<"processInput", 335>>})

(* A worker of executeToolCallsParallel (session.go:410-413). *)
WorkerCode ==
    (<<"worker", 410>> :> Ins("Idle", {}))
    @@ executeSingleToolCode("worker", {<<"worker", 411>>})
    @@ (<<"worker", 411>> :> Ins("Done", {}))

(* Loop detection (session.go:334-352) and the follow-up queue (355-367). *)
LoopEndCode ==
    (<<"processInput", 335>> :> Ins("Lock", {<<"processInput", 340>>}))
    @@ (<<"processInput", 340>> :>
            Ins("Unlock", {<<"processInput", 345>>, <<"processInput", 201>>}))
    @@ (<<"processInput", 345>> :> Ins("Lock", {<<"processInput", 347>>}))
    @@ (<<"processInput", 347>> :> Ins("Unlock", {<<"processInput", 201>>}))
    @@ (<<"processInput", 356>> :>
            Ins("Lock", {<<"processInput", 360>>, <<"processInput", 364>>}))
    @@ (<<"processInput", 360>> :> Ins("Unlock", {<<"processInput", 187>>}))
    @@ (<<"processInput", 364>> :> Ins("Unlock", {<<"Submit", 171>>}))

(* The host's other calls (session.go:108-168); Close's critical section is
   lines 152-154. *)
HostCode ==
    LET rest == {<<"host", 0>>}
    IN  (<<"host", 0>> :>
             Ins("Idle", {<<"State", 110>>, <<"History", 117>>, <<"Steer", 131>>,
                          <<"FollowUp", 138>>, <<"Abort", 145>>,
                          <<"Close", 152>>, <<"SetReasoningEffort", 165>>}))
        @@ LockDefer("State", 110, rest)
        @@ LockDefer("History", 117, rest)
        @@ LockDefer("Steer", 131, rest)
        @@ LockDefer("FollowUp", 138, rest)
        @@ LockDefer("Abort", 145, rest)
        @@ (<<"Close", 152>> :> Ins("Lock", {<<"Close", 154>>}))
        @@ (<<"Close", 154>> :> Ins("Unlock", rest))
        @@ LockDefer("SetReasoningEffort", 165, rest)

Code ==
    SubmitCode @@ CheckLimitsCode @@ BuildRequestCode @@ CompleteCode
    @@ ToolRoundCode @@ WorkerCode @@ LoopEndCode @@ HostCode

Workers == {"worker 1", "worker 2"}
Goroutines == {"Submit", "host"} \cup Workers

At(g) == Code[muPc[g]]

InitMutex ==
    /\ NewSession(Config(2, 0, TRUE, 4, FALSE))
    /\ NewEventEmitter(EventBufferSize)
    /\ NoCall
    /\ NoSubagents
    /\ NoRetry /\ NoRegistryCalls
    /\ mu = MuFree
    /\ muPc = [g \in Goroutines |->
                  CASE g = "Submit" -> <<"Submit", 171>>
                    [] g = "host" -> <<"host", 0>>
                    [] OTHER -> <<"worker", 410>>]

muRest == <<mainVars, lastOutput, emitterVars, fnVars, subVars, retry, reg>>

MuGoto(g, next) == \E l \in next : muPc' = [muPc EXCEPT ![g] = l]

(* sync.Mutex.Lock: blocks until the mutex is free. *)
MuLock(g) ==
    /\ At(g).op = "Lock"
    /\ mu = MuFree
    /\ mu' = g
    /\ MuGoto(g, At(g).next)
    /\ UNCHANGED muRest

(* sync.Mutex.Unlock. *)
MuUnlock(g) ==
    /\ At(g).op = "Unlock"
    /\ mu' = MuFree
    /\ MuGoto(g, At(g).next)
    /\ UNCHANGED muRest

(* Code that takes no lock and blocks on nothing: a call from the host, a
   branch. *)
MuStep(g) ==
    /\ At(g).op \in {"Idle", "Step"}
    /\ At(g).next # {}
    /\ MuGoto(g, At(g).next)
    /\ UNCHANGED <<muRest, mu>>

(* The Completer or a tool executor returns. *)
MuCallReturns(g) ==
    /\ At(g).op \in {"Complete", "Executor"}
    /\ MuGoto(g, At(g).next)
    /\ UNCHANGED <<muRest, mu>>

(* executeToolCallsParallel starts one goroutine per call (lines 408-414). *)
MuGo(g) ==
    /\ At(g).op = "Go"
    /\ \E l \in At(g).next :
          muPc' = [h \in Goroutines |->
                      IF h = g THEN l
                      ELSE IF h \in Workers THEN <<"worker", 443>>
                      ELSE muPc[h]]
    /\ UNCHANGED <<muRest, mu>>

(* wg.Wait() (line 415): every worker has called wg.Done(). *)
MuWait(g) ==
    /\ At(g).op = "Wait"
    /\ \A w \in Workers : Code[muPc[w]].op = "Done"
    /\ \E l \in At(g).next :
          muPc' = [h \in Goroutines |->
                      IF h = g THEN l
                      ELSE IF h \in Workers THEN <<"worker", 410>>
                      ELSE muPc[h]]
    /\ UNCHANGED <<muRest, mu>>

NextMutex ==
    \/ \E g \in Goroutines : MuLock(g)
    \/ \E g \in Goroutines : MuUnlock(g)
    \/ \E g \in Goroutines : MuStep(g)
    \/ \E g \in Goroutines : MuCallReturns(g)
    \/ \E g \in Goroutines : MuGo(g)
    \/ \E g \in Goroutines : MuWait(g)

SpecMutex == InitMutex /\ [][NextMutex]_vars

-----------------------------------------------------------------------------
(* ToolRegistry (profile_gemini.go:387-473): goroutines call Register,
   Unregister, Get and MergeFrom on two registries.  A call in progress is the
   list of its remaining steps; the deferred unlocks are the last steps, in
   the reverse order of their defer statements. *)

MaxRegistryCalls == 3

RegIns(op, r, other, name, exec) ==
    [op |-> op, r |-> r, other |-> other, name |-> name, exec |-> exec]

(* Register (profile_gemini.go:400-405). *)
RegisterCode(r, name, exec) ==
    << RegIns("Lock", r, r, name, exec), RegIns("store", r, r, name, exec),
       RegIns("Unlock", r, r, name, exec) >>

(* Unregister (profile_gemini.go:407-412). *)
UnregisterCode(r, name) ==
    << RegIns("Lock", r, r, name, NoTool), RegIns("delete", r, r, name, NoTool),
       RegIns("Unlock", r, r, name, NoTool) >>

(* Get (profile_gemini.go:414-419). *)
GetCode(r, name) ==
    << RegIns("RLock", r, r, name, NoTool), RegIns("read", r, r, name, NoTool),
       RegIns("RUnlock", r, r, name, NoTool) >>

(* MergeFrom (profile_gemini.go:464-473): the read lock of other, then the
   write lock of r, the copy, and the deferred Unlock and RUnlock. *)
MergeFromCode(r, other) ==
    << RegIns("RLock", other, other, NoTool, NoTool),
       RegIns("Lock", r, other, NoTool, NoTool),
       RegIns("merge", r, other, NoTool, NoTool),
       RegIns("Unlock", r, other, NoTool, NoTool),
       RegIns("RUnlock", other, other, NoTool, NoTool) >>

RegistryCode ==
    {RegisterCode(r, n, e) : r \in Registries, n \in RegToolNames, e \in RegExecutors}
    \cup {UnregisterCode(r, n) : r \in Registries, n \in RegToolNames}
    \cup {GetCode(r, n) : r \in Registries, n \in RegToolNames}
    \cup {MergeFromCode(r, o) : r \in Registries, o \in Registries}

InitRegistry ==
    /\ NewSession(Config(2, 0, TRUE, 4, FALSE))
    /\ NewEventEmitter(EventBufferSize)
    /\ NoCall /\ NoSubagents /\ NoRetry /\ NoLocking
    /\ NoRegistryCalls

regRest == <<mainVars, lastOutput, emitterVars, fnVars, subVars, retry, mu, muPc>>

(* The step goroutine g is about to take, and the registry it is on. *)
RegAt(g) == Head(reg.pc[g])
RegMu(g) == reg.r[RegAt(g).r].mu

(* g has taken its step: the registry's new lock and tools. *)
RegDone(g, lock, tools) ==
    reg' = [reg EXCEPT !.r[RegAt(g).r] = [tools |-> tools, mu |-> lock],
                       !.pc[g] = Tail(@)]

(* A goroutine with no call in progress starts one. *)
RegistryCall(g, code) ==
    /\ reg.pc[g] = <<>>
    /\ reg.calls < MaxRegistryCalls
    /\ reg' = [reg EXCEPT !.pc[g] = code, !.calls = @ + 1]
    /\ UNCHANGED regRest

(* RWMutex.RLock: blocks while a writer holds the lock or waits for it. *)
RegRLock(g) ==
    /\ reg.pc[g] # <<>> /\ RegAt(g).op = "RLock"
    /\ RegMu(g).writer = NoOne
    /\ RegDone(g, [RegMu(g) EXCEPT !.readers = @ \cup {g}], reg.r[RegAt(g).r].tools)
    /\ UNCHANGED regRest

(* RWMutex.Lock, first half: the writer announces itself, which keeps new
   readers out; one writer at a time. *)
RegLock(g) ==
    /\ reg.pc[g] # <<>> /\ RegAt(g).op = "Lock"
    /\ RegMu(g).writer = NoOne
    /\ reg' = [reg EXCEPT !.r[RegAt(g).r].mu.writer = g]
    /\ UNCHANGED regRest

(* RWMutex.Lock, second half: the lock is acquired once the readers have
   left. *)
RegLockAcquire(g) ==
    /\ reg.pc[g] # <<>> /\ RegAt(g).op = "Lock"
    /\ RegMu(g).writer = g /\ RegMu(g).readers = {}
    /\ RegDone(g, [RegMu(g) EXCEPT !.held = TRUE], reg.r[RegAt(g).r].tools)
    /\ UNCHANGED regRest

(* The body of the call, under the lock: Register's store, Unregister's
   delete, Get's read, MergeFrom's copy of every tool of other. *)
RegBody(g) ==
    /\ reg.pc[g] # <<>> /\ RegAt(g).op \in {"store", "delete", "read", "merge"}
    /\ LET at == RegAt(g)
           tools == reg.r[at.r].tools
       IN  RegDone(g, RegMu(g),
               CASE at.op = "store" -> [tools EXCEPT ![at.name] = at.exec]
                 [] at.op = "delete" -> [tools EXCEPT ![at.name] = NoTool]
                 [] at.op = "read" -> tools
                 [] at.op = "merge" ->
                       [n \in RegToolNames |->
                           IF reg.r[at.other].tools[n] # NoTool
                           THEN reg.r[at.other].tools[n] ELSE tools[n]])
    /\ UNCHANGED regRest

(* The deferred RWMutex.Unlock and RUnlock. *)
RegUnlock(g) ==
    /\ reg.pc[g] # <<>> /\ RegAt(g).op = "Unlock"
    /\ RegDone(g, [RegMu(g) EXCEPT !.writer = NoOne, !.held = FALSE],
               reg.r[RegAt(g).r].tools)
    /\ UNCHANGED regRest

RegRUnlock(g) ==
    /\ reg.pc[g] # <<>> /\ RegAt(g).op = "RUnlock"
    /\ RegDone(g, [RegMu(g) EXCEPT !.readers = @ \ {g}], reg.r[RegAt(g).r].tools)
    /\ UNCHANGED regRest

NextRegistry ==
    \/ \E g \in RegGoroutines, code \in RegistryCode : RegistryCall(g, code)
    \/ \E g \in RegGoroutines : RegRLock(g)
    \/ \E g \in RegGoroutines : RegLock(g)
    \/ \E g \in RegGoroutines : RegLockAcquire(g)
    \/ \E g \in RegGoroutines : RegBody(g)
    \/ \E g \in RegGoroutines : RegUnlock(g)
    \/ \E g \in RegGoroutines : RegRUnlock(g)

SpecRegistry == InitRegistry /\ [][NextRegistry]_vars

-----------------------------------------------------------------------------
(* Properties of the session. *)

WithToolCalls(turn) == turn.Kind = TurnAssistant /\ Len(turn.ToolCalls) > 0

IsPrefix(a, b) == Len(a) <= Len(b) /\ \A i \in 1..Len(a) : a[i] = b[i]

Returned(t) == pc[t] = "idle" /\ ret[t] # RetNone

(* The turn T answers the tool calls of the Assistant turn A, call by call. *)
Answers(T, A) ==
    /\ T.Kind = TurnToolResults
    /\ Len(T.Results) = Len(A.ToolCalls)
    /\ \A k \in 1..Len(A.ToolCalls) : T.Results[k].ToolCallID = A.ToolCalls[k].ID

(* C1: with one Submit in flight and Steer, FollowUp, Abort, History (and
   Close, cancellation) interleaved at will, the turn right after an
   Assistant turn with tool calls is its ToolResults turn (as many results as
   calls, result i carrying the id of call i), a ToolResults turn stands
   nowhere else, an Assistant turn with tool calls is last in the history
   only while its tool round is executing, and never once Submit has
   returned. *)
C1_ToolCallsAnswered ==
    /\ \A i \in 1..Len(history) :
          /\ (WithToolCalls(history[i]) /\ i < Len(history))
                => Answers(history[i + 1], history[i])
          /\ history[i].Kind = TurnToolResults
                => i > 1 /\ WithToolCalls(history[i - 1])
    /\ (Len(history) > 0 /\ WithToolCalls(history[Len(history)]))
          => \E t \in Threads : pc[t] = "tools"

(* C1's case: a Submit during which Steer was called has returned nil, and
   its history holds a two-call Assistant turn, dispatched in parallel,
   followed by its ToolResults turn. *)
C1_Witness ==
    /\ Returned(1) /\ ret[1] = RetNil
    /\ config.SupportsParallelToolCalls
    /\ nSteer > 0
    /\ \E i \in 1..Len(history) :
          /\ Len(history[i].ToolCalls) = 2
          /\ i < Len(history)
          /\ history[i + 1].Kind = TurnToolResults

(* C2: Closed is absorbing: no step takes the state from Closed to another
   state. *)
C2_ClosedAbsorbing == [][state = StateClosed => state' = StateClosed]_vars

(* C3: the state is Processing only while a Submit call is executing; once
   a Submit call has returned and the session is not Closed, the state is
   Idle. *)
C3_IdleAfterSubmit ==
    /\ state = StateProcessing => \E t \in Threads : pc[t] # "idle"
    /\ \A t \in Threads :
          (Returned(t) /\ state # StateClosed) => state = StateIdle

(* C4: a Steering turn, be it a drained Steer message or the loop detector's
   warning, never stands right after an Assistant turn with tool calls, that
   is between the turn and its ToolResults turn. *)
C4_NoSteeringInsidePair ==
    \A j \in 2..Len(history) :
        history[j].Kind = TurnSteering => ~WithToolCalls(history[j - 1])

(* C4's case: a Steer message was drained right after a ToolResults turn and
   the loop detector's warning was appended after it. *)
C4_Witness ==
    \E j \in 3..Len(history) :
        /\ history[j].Kind = TurnSteering /\ history[j].Content = LoopWarning
        /\ history[j - 1].Kind = TurnSteering
        /\ history[j - 2].Kind = TurnToolResults

(* C5: the history is append-only: a slice returned by History() stays a
   prefix of the history (so of every later snapshot) whatever Submit, Steer,
   FollowUp, Abort, Close and the tool dispatch do afterwards, and it holds
   whole turns only: no ToolResults turn with a result still to come. *)
C5_HistoryAppendOnly ==
    /\ IsPrefix(snap, history)
    /\ \A i \in 1..Len(snap) :
          /\ \A k \in 1..Len(snap[i].Results) : snap[i].Results[k] # Pending
          /\ snap[i].Kind = TurnToolResults => Len(snap[i].Results) > 0

(* C5's case: a snapshot that ends with a ToolResults turn, taken before the
   history grew by further turns. *)
C5_Witness ==
    /\ Len(snap) > 0
    /\ snap[Len(snap)].Kind = TurnToolResults
    /\ Len(history) > Len(snap)

(* C6 as stated: at most maxToolRoundsPerInput tool rounds per input, and
   once the round limit has stopped the loop of an input Submit returns
   nil. *)
C6_AsStated ==
    \A t \in Threads :
        /\ roundCount[t] <= config.MaxToolRoundsPerInput
        /\ (Returned(t) /\ "rounds" \in limitsHit[t]) => ret[t] = RetNil

(* C6 amended: per input at most maxToolRoundsPerInput tool rounds and as
   many Completer calls; the loop leaves on the round limit exactly with the
   counter at the limit and turn_limit as its last event; no Completer call is
   in flight with the counter at the limit; and Submit returns nil when the
   limit stopped the loop of the last input it processed (a follow-up
   dequeued after the limit may still end Submit with an error). *)
C6_RoundBudget ==
    \A t \in Threads :
        /\ roundCount[t] <= config.MaxToolRoundsPerInput
        /\ llmCalls[t] <= config.MaxToolRoundsPerInput
        /\ pc[t] = "llm" => roundCount[t] < config.MaxToolRoundsPerInput
        /\ (pc[t] = "exit" /\ why[t] = "round_limit")
              => /\ lastEmit[t] = "turn_limit"
                 /\ roundCount[t] = config.MaxToolRoundsPerInput
        /\ (Returned(t) /\ why[t] = "round_limit") => ret[t] = RetNil

(* C6's case: Submit has returned nil after the round limit stopped a loop
   that ran two tool rounds. *)
C6_Witness ==
    /\ Returned(1) /\ ret[1] = RetNil
    /\ why[1] = "round_limit"
    /\ roundCount[1] = 2

(* C7: with maxTurns > 0 no Completer call is in flight while the history
   holds maxTurns or more User and Assistant turns; the loop leaves on the
   turn limit with turn_limit as its last event, and a Submit in which the
   turn limit stopped a loop returns nil; with maxTurns = 0 the turn count
   stops no loop. *)
C7_TurnBudget ==
    \A t \in Threads :
        /\ (pc[t] = "llm" /\ config.MaxTurns > 0)
              => countTurns(history) < config.MaxTurns
        /\ (pc[t] = "exit" /\ why[t] = "turn_limit") => lastEmit[t] = "turn_limit"
        /\ "turns" \in limitsHit[t]
              => /\ config.MaxTurns > 0
                 /\ countTurns(history) >= config.MaxTurns
                 /\ pc[t] \in {"exit", "append_user", "drain", "inject", "check",
                              "check_turns", "idle"}
                 /\ Returned(t) => ret[t] = RetNil

(* C7's case: Submit has returned nil after the turn limit stopped the loop
   of an input for which the Completer had been called. *)
C7_Witness ==
    /\ Returned(1) /\ ret[1] = RetNil
    /\ "turns" \in limitsHit[1]
    /\ \E i \in 1..Len(history) : history[i].Kind = TurnAssistant

(* The history ends with an Assistant turn without tool calls, or with an
   Assistant turn with tool calls followed by its ToolResults turn. *)
EndsCompleted(h) ==
    /\ Len(h) > 0
    /\ \/ h[Len(h)].Kind = TurnAssistant /\ Len(h[Len(h)].ToolCalls) = 0
       \/ /\ Len(h) > 1
          /\ WithToolCalls(h[Len(h) - 1])
          /\ Answers(h[Len(h)], h[Len(h) - 1])

(* The history without the Steering turns at its end. *)
RECURSIVE DropSteering(_)
DropSteering(h) ==
    IF Len(h) > 0 /\ h[Len(h)].Kind = TurnSteering
    THEN DropSteering(SubSeq(h, 1, Len(h) - 1))
    ELSE h

(* C8 as stated: when Submit has returned nil the history ends with an
   Assistant turn without tool calls or with an Assistant turn with tool
   calls and its ToolResults turn, never with a User or Steering turn. *)
C8_AsStated ==
    \A t \in Threads : (Returned(t) /\ ret[t] = RetNil) => EndsCompleted(history)

(* C8 amended: when Submit has returned nil, the history ends with an
   Assistant turn without tool calls if the last loop completed naturally;
   if a limit or Abort stopped it, the history without the Steering turns at
   its end (drained Steer messages, the loop detector's warning) ends with an
   Assistant turn with tool calls and its ToolResults turn, or with the
   input's User turn when the loop stopped before its first Completer call. *)
C8_HistoryEnd ==
    \A t \in Threads :
        (Returned(t) /\ ret[t] = RetNil)
           => IF why[t] = "natural"
              THEN Len(history) > 0 /\ history[Len(history)].Kind = TurnAssistant
                   /\ Len(history[Len(history)].ToolCalls) = 0
              ELSE LET h == DropSteering(history)
                   IN  /\ why[t] \in {"round_limit", "turn_limit", "abort"}
                       /\ Len(h) > 0
                       /\ \/ EndsCompleted(h) /\ h[Len(h)].Kind = TurnToolResults
                          \/ h[Len(h)].Kind = TurnUser /\ llmCalls[t] = 0

(* C8's case: Submit has returned nil after Abort stopped the loop behind a
   tool round whose ToolResults turn is followed by a Steering turn. *)
C8_Witness ==
    /\ Returned(1) /\ ret[1] = RetNil
    /\ why[1] = "abort"
    /\ Len(history) > 1
    /\ history[Len(history)].Kind = TurnSteering
    /\ history[Len(history) - 1].Kind = TurnToolResults

(* C9: when the Completer has returned an error that is not retryable, the
   state is Closed, the last event of the loop is error, Submit has returned
   "unrecoverable LLM error" wrapping that error, and the history is as long
   as it was when the call was started: no Assistant turn for it. *)
C9_FatalCompleterError ==
    \A t \in Threads :
        (Returned(t) /\ llmOutcome[t] # NoErr /\ ~IsRetryable(llmOutcome[t]))
           => /\ state = StateClosed
              /\ lastEmit[t] = "error"
              /\ ret[t] = RetUnrecoverable(llmOutcome[t])
              /\ Len(history) = histAtCall[t]
              /\ history[Len(history)].Kind # TurnAssistant

(* C9's case: the second Completer call of a Submit, after a tool round,
   returned an authentication error. *)
C9_Witness ==
    /\ Returned(1)
    /\ llmOutcome[1] = Err("AuthenticationError", FALSE)
    /\ history[Len(history)].Kind = TurnToolResults

(* C10: when the Completer has returned a retryable error, Submit has
   returned "LLM error after retries" wrapping it and the session is Closed
   only if Close was called; and the next Submit on the session, unless it
   was closed meanwhile, is accepted: the state becomes Processing and the
   per-input loop starts with the User turn. *)
C10_RetryableCompleterError ==
    /\ [](\A t \in Threads :
            (Returned(t) /\ llmOutcome[t] # NoErr /\ IsRetryable(llmOutcome[t]))
               => /\ ret[t] = RetAfterRetries(llmOutcome[t])
                  /\ lastEmit[t] = "error"
                  /\ state = StateClosed => (closePc = "cleanup" \/ emClosed))
    /\ [][\A t \in Threads :
            (/\ Returned(t) /\ ret[t].Kind = "LLM error after retries"
             /\ state # StateClosed
             /\ nSubmit' = nSubmit + 1)
               => /\ state' = StateProcessing
                  /\ pc'[t] = "append_user"]_vars

(* C10's case: after a Submit that ended with a retryable Completer error, a
   second Submit is at its Completer call. *)
C10_Witness ==
    /\ ret[1].Kind = "LLM error after retries"
    /\ pc[1] = "llm"
    /\ state = StateProcessing

(* C11: when the context passed to Submit was cancelled while Submit was
   running and the cancellation was observed, at the loop's check of the
   context or by the Completer call in flight (which then fails with the
   error translateError makes of ctx.Err()), Submit has returned the context
   error and the state is Closed. *)
C11_CancelClosesSession ==
    \A t \in Threads :
        (/\ Returned(t)
         /\ ctxDone[t]
         /\ (ret[t] = RetCtx \/ llmOutcome[t] = CancelledErr))
           => /\ ret[t] = RetCtx
              /\ state = StateClosed

(* C12: Abort during a Submit is seen at the loop's next check point: the
   flag stays set until Submit returns and Abort leaves a Completer call in
   flight alone; an iteration that reads the flag as set goes no further than
   the limit and abort checks (no context check, Completer call or tool round
   follows, for this input and for every follow-up); the loop that left on
   the abort check has the ToolResults turn of its last tool round in the
   history; and Submit returns nil. *)
C12_AbortAtCheckPoint ==
    /\ [](\A t \in Threads :
            /\ aborted[t] => pc[t] \in {"idle", "append_user", "drain", "inject",
                                        "check", "check_turns", "exit"}
            /\ (pc[t] = "exit" /\ why[t] = "abort")
                  => /\ lastEmit[t] # "turn_limit"
                     /\ Len(history) > 0
                     /\ ~WithToolCalls(history[Len(history)])
            /\ (Returned(t) /\ aborted[t] /\ ret[t] # RetClosed) => ret[t] = RetNil)
    /\ [][\A t \in Threads :
            /\ (abortSignaled /\ pc[t] # "idle") => abortSignaled'
            /\ (~abortSignaled /\ abortSignaled') => pc'[t] = pc[t]
            /\ (pc[t] = "check" /\ pc'[t] # "check" /\ abortSignaled)
                  => aborted'[t] /\ pc'[t] \in {"exit", "check_turns"}
            /\ (pc[t] = "check_turns" /\ pc'[t] # "check_turns" /\ aborted[t])
                  => pc'[t] = "exit"]_vars

(* C12's case: Abort was called during a tool round; the ToolResults turn of
   the round was appended, the loop left on the abort check and Submit has
   returned nil. *)
C12_Witness ==
    /\ Returned(1) /\ ret[1] = RetNil
    /\ why[1] = "abort"
    /\ roundCount[1] = 1
    /\ history[Len(history)].Kind = TurnToolResults
    /\ Len(history[Len(history)].Results) = 2

(* The texts of the Steering turns of h that came from Steer, in order. *)
IsSteerTurn(turn) == turn.Kind = TurnSteering /\ turn.Content # LoopWarning

SteerInjected(h) ==
    LET sel == SelectSeq(h, IsSteerTurn)
    IN  [i \in 1..Len(sel) |-> sel[i].Content]

(* C13: every message passed to Steer becomes exactly one Steering turn, in
   the order of the Steer calls: the injected texts, the texts a drain has
   copied and not yet injected, and the queue make up the sequence of all
   messages ever passed to Steer; a drain happens right after a User turn or a
   ToolResults turn, takes the whole queue and leaves it empty; each injection
   appends one Steering turn for the first copied message and emits
   steering_injected; nothing else adds such a turn. *)
C13_SteeringInjectedOnce ==
    /\ [](\A t \in Threads :
            /\ SteerInjected(history) \o messages[t] \o steeringQueue
                  = [i \in 1..nSteer |-> SteerText(i)]
            /\ pc[t] = "drain"
                  => /\ Len(history) > 0
                     /\ history[Len(history)].Kind \in {TurnUser, TurnToolResults}
            /\ pc[t] # "inject" => messages[t] = <<>>)
    /\ [][\A t \in Threads :
            /\ (pc[t] = "drain" /\ pc'[t] # "drain")
                  => steeringQueue' = <<>> /\ messages'[t] = steeringQueue
            /\ (pc[t] = "inject" /\ messages'[t] # messages[t])
                  => /\ history' = Append(history, NewSteeringTurn(Head(messages[t])))
                     /\ messages'[t] = Tail(messages[t])
                     /\ lastEmit'[t] = "steering_injected"
            /\ SteerInjected(history') # SteerInjected(history) => pc[t] = "inject"]_vars

(* C13's case: two messages were drained together after a ToolResults turn
   and stand in the history in the order of their Steer calls. *)
C13_Witness ==
    \E j \in 3..Len(history) :
        /\ history[j - 2].Kind = TurnToolResults
        /\ history[j - 1] = NewSteeringTurn(SteerText(1))
        /\ history[j] = NewSteeringTurn(SteerText(2))

(* The texts of the User turns of h that came from FollowUp, in order. *)
IsFollowUpTurn(turn) == turn.Kind = TurnUser /\ turn.Content[1] = "follow-up"

FollowUpsTaken(h) ==
    LET sel == SelectSeq(h, IsFollowUpTurn)
    IN  [i \in 1..Len(sel) |-> sel[i].Content]

(* The follow-up a nested processInput has received and not yet recorded. *)
FollowUpInHand(t) ==
    IF pc[t] = "append_user" /\ userInput[t][1] = "follow-up"
    THEN <<userInput[t]>> ELSE <<>>

(* C14: follow-ups are consumed first in, first out and one at a time: the
   follow-up User turns of the history, the follow-up in the hands of a
   starting loop and the queue make up the sequence of all messages ever
   passed to FollowUp; the queue shrinks only at a loop's exit, by its head,
   which becomes the input of a fresh loop (its User turn, round 0); and
   leaving the exit to return happens only with the queue empty, setting
   Idle, emitting session_end and returning nil. *)
C14_FollowUpsInOrder ==
    /\ [](\A t \in Threads :
            FollowUpsTaken(history) \o FollowUpInHand(t) \o followupQueue
               = [i \in 1..nFollow |-> FollowUpText(i)])
    /\ [][\A t \in Threads :
            /\ Len(followupQueue') < Len(followupQueue)
                  => /\ pc[t] = "exit" /\ pc'[t] = "append_user"
                     /\ userInput'[t] = Head(followupQueue)
                     /\ followupQueue' = Tail(followupQueue)
                     /\ state' = state /\ ret' = ret /\ lastEmit' = lastEmit
            /\ (pc[t] = "exit" /\ pc'[t] # "exit" /\ followupQueue # <<>>)
                  => pc'[t] = "append_user"
            /\ (pc[t] = "exit" /\ pc'[t] = "idle")
                  => /\ followupQueue = <<>>
                     /\ state' = StateIdle
                     /\ lastEmit'[t] = "session_end"
                     /\ ret'[t] = RetNil
            /\ (pc[t] = "append_user" /\ pc'[t] # "append_user")
                  => /\ history' = Append(history, NewUserTurn(userInput[t]))
                     /\ roundCount'[t] = 0]_vars

(* C14's case: Submit has returned nil after two follow-ups were processed,
   the first of them with a Completer call of its own. *)
C14_Witness ==
    /\ Returned(1) /\ ret[1] = RetNil
    /\ \E i \in 1..Len(history) : \E j \in (i + 2)..Len(history) :
          /\ history[i] = NewUserTurn(FollowUpText(1))
          /\ history[i + 1].Kind = TurnAssistant
          /\ history[j] = NewUserTurn(FollowUpText(2))

(* C15: a tool-level failure ends neither the loop nor Submit: the result
   recorded for a call to an unregistered tool is an error result "Unknown
   tool: <name>", for a call whose executor fails an error result "Tool error
   (<name>", both with the call's id; each executed call emits tool_call_end;
   and a tool round, failures or not, leads to the ToolResults turn and on to
   the loop's next iteration without Submit returning. *)
C15_ToolFailureIsAResult ==
    /\ [](\A i \in 2..Len(history) :
            history[i].Kind = TurnToolResults
               => \A k \in 1..Len(history[i].Results) :
                     LET call == history[i - 1].ToolCalls[k]
                         res == history[i].Results[k]
                     IN  /\ res.ToolCallID = call.ID
                         /\ call.Name \notin Registered
                               => /\ res.IsError
                                  /\ res.Content = <<"Unknown tool: ", call.Name>>
                         /\ (call.Name \in Registered /\ Executor(call) = "err")
                               => /\ res.IsError
                                  /\ res.Content = <<"Tool error (", call.Name>>
                         /\ (call.Name \in Registered /\ Executor(call) = "ok")
                               => ~res.IsError)
    /\ [][\A t \in Threads :
            /\ pc[t] = "tools"
                  => /\ pc'[t] \in {"tools", "drain"}
                     /\ ret'[t] = ret[t]
                     /\ results'[t] # results[t] => lastEmit'[t] = "tool_call_end"
            /\ pc[t] \in {"loop_detect", "loop_warn"}
                  => pc'[t] \in {"loop_detect", "loop_warn", "check"} /\ ret'[t] = ret[t]]_vars

(* C15's case: after a tool round whose second call named an unregistered
   tool, the next Completer call is in flight. *)
C15_Witness ==
    /\ pc[1] = "llm"
    /\ Len(history) > 1
    /\ history[Len(history)].Kind = TurnToolResults
    /\ Len(history[Len(history)].Results) = 2
    /\ history[Len(history)].Results[2].IsError

(* C16: during a tool round the result array has one slot per call and a
   filled slot i holds the result of call i, in whatever order the executors
   return; without parallel support, or with a single call, the slots fill in
   call order; the ToolResults turn is appended only when every executor has
   returned: while the round runs the Assistant turn is still last in the
   history, and a recorded ToolResults turn holds no open slot and the result
   of call i at position i. *)
C16_ResultsByPosition ==
    /\ \A t \in Threads :
          pc[t] = "tools"
             => /\ Len(results[t]) = Len(toolCalls[t])
                /\ \A i \in 1..Len(results[t]) :
                      results[t][i] # Pending
                         => results[t][i] = executeSingleTool(toolCalls[t][i])
                /\ ~(config.SupportsParallelToolCalls /\ Len(toolCalls[t]) > 1)
                      => \A i \in 1..Len(results[t]) : \A j \in 1..(i - 1) :
                            results[t][i] # Pending => results[t][j] # Pending
                /\ Len(history) > 0
                /\ history[Len(history)].Kind = TurnAssistant
                /\ history[Len(history)].ToolCalls = toolCalls[t]
    /\ \A i \in 2..Len(history) :
          history[i].Kind = TurnToolResults
             => /\ Len(history[i].Results) = Len(history[i - 1].ToolCalls)
                /\ \A k \in 1..Len(history[i].Results) :
                      history[i].Results[k]
                         = executeSingleTool(history[i - 1].ToolCalls[k])

(* C16's case: in a parallel round of two calls the executor of the second
   call has returned before the executor of the first. *)
C16_Witness ==
    /\ pc[1] = "tools"
    /\ config.SupportsParallelToolCalls
    /\ Len(toolCalls[1]) = 2
    /\ results[1][1] = Pending
    /\ results[1][2] # Pending

(* The limits in force for a tool: the configured one, else the tool's
   default, else 30000 characters and no line limit. *)
CharLimitInForce(toolName, charLimits) ==
    IF toolName \in DOMAIN charLimits THEN charLimits[toolName]
    ELSE IF toolName \in DOMAIN DefaultToolCharLimits
    THEN DefaultToolCharLimits[toolName] ELSE 30000

LineLimitInForce(toolName, lineLimits) ==
    IF toolName \in DOMAIN lineLimits /\ lineLimits[toolName] # 0
    THEN lineLimits[toolName]
    ELSE IF toolName \in DOMAIN DefaultToolLineLimits
    THEN DefaultToolLineLimits[toolName] ELSE 0

LineCount(text) == 1 + Cardinality({i \in 1..Len(text) : text[i] = NL})

OverLimit(raw, toolName, charLimits, lineLimits) ==
    \/ Len(raw) > CharLimitInForce(toolName, charLimits)
    \/ /\ LineLimitInForce(toolName, lineLimits) > 0
       /\ LineCount(raw) > LineLimitInForce(toolName, lineLimits)

HasWarning(text) == \E i \in 1..Len(text) : text[i] \notin {"a", NL}

(* C17: once the executor of a call has returned output, the tool_call_end
   event has carried the raw output, and the content of the call's result,
   in the result array, in the ToolResults turn of the history and in the
   tool message of the next request, is TruncateToolOutput of the raw output
   under the configured limits: the raw output itself when it is within the
   limits in force, and otherwise a text with a truncation warning that
   differs from the raw output and, when the character limit is exceeded,
   keeps no more of its letters than the limit. *)
C17_ModelSeesTruncatedOutput ==
    \A t \in Threads :
        LET call == toolCalls[t][1]
            raw == RawOutput(call)
            charLimits == config.ToolOutputLimits
            lineLimits == config.ToolLineLimits
            over == OverLimit(raw, call.Name, charLimits, lineLimits)
            Shown(content) ==
                /\ content = TruncateToolOutput(raw, call.Name, charLimits, lineLimits)
                /\ ~over => content = raw
                /\ over => content # raw /\ HasWarning(content)
                /\ Len(raw) > CharLimitInForce(call.Name, charLimits)
                      => Cardinality({i \in 1..Len(content) : content[i] = "a"})
                            <= CharLimitInForce(call.Name, charLimits)
        IN  /\ (pc[t] = "tools" /\ results[t][1] # Pending)
                  => /\ lastEmit[t] = "tool_call_end"
                     /\ ~results[t][1].IsError
                     /\ Shown(results[t][1].Content)
            /\ results[t][1] # Pending => lastOutput = raw
            /\ (Len(history) > 2 /\ history[3].Kind = TurnToolResults)
                  => /\ history[3].Results[1].ToolCallID = call.ID
                     /\ Shown(history[3].Results[1].Content)
            /\ pc[t] = "llm"
                  => /\ request[t][Len(request[t])].Role = "tool"
                     /\ Shown(request[t][Len(request[t])].Text)

(* C17's case: the request of the next Completer call is built after a call
   whose raw output, of the greatest length explored, exceeded the line
   limit in force after the character truncation: the tool message holds
   both warnings and the event has carried the raw output. *)
C17_Witness ==
    /\ pc[1] = "llm"
    /\ Len(lastOutput) = MaxRawLen
    /\ LET text == request[1][Len(request[1])].Text
       IN  /\ text # lastOutput
           /\ \E i \in 1..Len(text) : text[i] = LinesOmitted(2)
           /\ \E i \in 1..Len(text) : \E n \in 1..MaxRawLen : text[i] = FirstWarning(n)

-----------------------------------------------------------------------------
(* Properties of the event emitter (SpecEmitter). *)

StrictlyIncreasing(q) == \A i, j \in 1..Len(q) : i < j => q[i] < q[j]

EmitSends(g) == emPc[g] = "emit_send" /\ emPc'[g] = "idle"

(* C18: Emit never blocks on the consumer: its send step can always be taken,
   whatever the buffer holds; when the buffer is full the new event is dropped
   and the buffered events are unchanged, otherwise it is appended; the
   buffer never holds more than its capacity; the events delivered and
   buffered are in the order of their Emit. *)
C18_EmitNeverBlocks ==
    /\ [](/\ Len(emCh) <= emCap
          /\ StrictlyIncreasing(emDelivered \o emCh)
          /\ \A g \in EmGoroutines : emPc[g] = "emit_send" => ENABLED EmitSend(g))
    /\ [][\A g \in EmGoroutines : EmitSends(g) =>
             /\ emDelivered' = emDelivered
             /\ IF Len(emCh) = emCap THEN emCh' = emCh
                                     ELSE emCh' = Append(emCh, emSeq)]_vars

(* An event was dropped at a full buffer, others were delivered before and
   after the drop. *)
C18_Witness ==
    /\ emCap <= MaxBuffer
    /\ Len(emCh) = emCap
    /\ Len(emDelivered) >= 2
    /\ \E i \in 1..(Len(emDelivered) - 1) : emDelivered[i + 1] > emDelivered[i] + 1

EmitSteps(g) ==
    /\ emPc[g] \in {"emit_lock", "emit_check", "emit_send"}
    /\ emPc'[g] # emPc[g]

EmitterCloseReturns(g) == emPc[g] = "close_check" /\ emPc'[g] = "idle"

(* C19: whatever the interleaving of Emit and Close calls of concurrent
   goroutines, the channel is closed at most once and exactly once when the
   emitter is closed, a Close of a closed emitter changes nothing, no Emit
   reaches its send with the channel closed (no send on a closed channel ever
   happens), and a step of Emit on a closed emitter leaves the channel
   contents unchanged and builds no event. *)
C19_CloseOnceEmitSafe ==
    /\ [](/\ emCloses <= 1
          /\ emClosed <=> emCloses = 1
          /\ ~emFault
          /\ \A g \in EmGoroutines : emPc[g] = "emit_send" => ~emClosed)
    /\ [][/\ emClosed => emClosed'
          /\ \A g \in EmGoroutines :
               /\ EmitterCloseReturns(g) =>
                    IF emClosed
                    THEN UNCHANGED <<emClosed, emCloses, emCh, emDelivered,
                                     emFault, emSeq>>
                    ELSE emClosed' /\ emCloses' = 1 /\ emCh' = emCh
               /\ (EmitSteps(g) /\ emClosed) =>
                    UNCHANGED <<emCh, emDelivered, emSeq, emFault>>]_vars

(* The emitter was closed with an event still buffered, a second Close and an
   Emit that found the emitter closed have both returned. *)
C19_Witness ==
    /\ emClosed /\ emCloses = 1
    /\ \A g \in EmGoroutines : emPc[g] = "idle"
    /\ emCalls.Close >= 2
    /\ emCalls.Emit > emSeq
    /\ emSeq >= 1
    /\ Len(emCh) >= 1

-----------------------------------------------------------------------------
(* Session.Close. *)

CloseReturns == closePc = "cleanup" /\ closePc' = "idle"

(* C20: when Session.Close returns, the state is Closed and the event channel
   is closed; a Close of a session that is already closed changes neither. *)
C20_CloseLeavesClosed ==
    [][CloseReturns =>
         /\ state' = StateClosed
         /\ emClosed'
         /\ emClosed => (state' = state /\ history' = history)]_vars

-----------------------------------------------------------------------------
(* Loop detection in the session. *)

IsLoopWarning(turn) == turn.Kind = TurnSteering /\ turn.Content = LoopWarning

LoopWarnings(h) == Cardinality({i \in 1..Len(h) : IsLoopWarning(h[i])})

(* The last turn of h that is not a Steering turn is a ToolResults turn. *)
RECURSIVE AfterToolResults(_)
AfterToolResults(h) ==
    IF h = <<>> THEN FALSE
    ELSE LET last == h[Len(h)]
         IN  IF last.Kind = TurnSteering THEN AfterToolResults(SubSeq(h, 1, Len(h) - 1))
             ELSE last.Kind = TurnToolResults

(* C25: the loop warning is appended only when loop detection is enabled and
   DetectLoop holds of the history after a tool round; it is one Steering
   turn, appended after that round's ToolResults turn (only Steering turns
   can stand between them); loop_detection is emitted and the Submit goes on
   to the top of the loop instead of returning; the detection step warns
   exactly when detection is enabled and DetectLoop holds; with loop
   detection disabled the history never holds a warning. *)
C25_LoopWarningAfterToolResults ==
    /\ [](~config.EnableLoopDetection => LoopWarnings(history) = 0)
    /\ [][\A t \in Threads :
            /\ (pc[t] = "loop_detect" /\ pc'[t] # "loop_detect") =>
                 /\ history' = history
                 /\ pc'[t] = (IF config.EnableLoopDetection
                                 /\ DetectLoop(history, config.LoopDetectionWindow)
                              THEN "loop_warn" ELSE "check")
            /\ LoopWarnings(history') # LoopWarnings(history) =>
                 /\ pc[t] = "loop_warn"
                 /\ config.EnableLoopDetection
                 /\ DetectLoop(history, config.LoopDetectionWindow)
                 /\ AfterToolResults(history)
                 /\ history' = Append(history, NewSteeringTurn(LoopWarning))
                 /\ lastEmit'[t] = "loop_detection"
                 /\ pc'[t] = "check" /\ ret'[t] = ret[t] /\ state' = state
            /\ (pc[t] = "loop_warn" /\ pc'[t] # "loop_warn") =>
                 LoopWarnings(history') = LoopWarnings(history) + 1]_vars

(* A loop was detected and the warning was appended right after the round's
   ToolResults turn; the Submit is back at the top of its loop. *)
C25_Witness ==
    /\ Len(history) >= 2
    /\ IsLoopWarning(history[Len(history)])
    /\ history[Len(history) - 1].Kind = TurnToolResults
    /\ LoopWarnings(history) = 1
    /\ \E t \in Threads : pc[t] = "check" /\ loopHit[t]

-----------------------------------------------------------------------------
(* Properties of DetectLoop (SpecLoop). *)

(* The signatures of all tool calls of a history, oldest first. *)
RECURSIVE AllSignatures(_)
AllSignatures(h) ==
    IF h = <<>> THEN <<>>
    ELSE LET turn == Head(h)
         IN  (IF turn.Kind = TurnAssistant
              THEN [i \in 1..Len(turn.ToolCalls) |->
                       toolCallSignature(turn.ToolCalls[i].Name,
                                         turn.ToolCalls[i].Arguments)]
              ELSE <<>>) \o AllSignatures(Tail(h))

(* q is made of Len(q) \div p copies of its first p elements. *)
RepeatsFirst(q, p) ==
    /\ Len(q) % p = 0
    /\ \A k \in 0..(Len(q) \div p) - 1 : SubSeq(q, k * p + 1, k * p + p) = SubSeq(q, 1, p)

(* C26: for a window w >= 1, DetectLoop is true iff the history holds at
   least w tool calls and, for some p in {1, 2, 3} that divides w, the last w
   signatures in chronological order are w/p copies of their first p. *)
C26_DetectLoopIsPeriodicity ==
    fnResult # <<>> =>
        LET all == AllSignatures(fnArgs.history)
            w == fnArgs.windowSize
            lastW == SubSeq(all, Len(all) - w + 1, Len(all))
        IN  fnResult[1] <=> /\ Len(all) >= w
                            /\ \E p \in {1, 2, 3} : w % p = 0 /\ RepeatsFirst(lastW, p)

(* A loop of period 3 that is no loop of period 1 or 2 was detected in a
   window that spans three Assistant turns. *)
C26_Witness ==
    /\ fnResult = <<TRUE>>
    /\ fnArgs.windowSize = 6
    /\ LET all == AllSignatures(fnArgs.history)
       IN  /\ Len(all) = 6
           /\ all[1] = all[2] /\ all[1] # all[3]
    /\ Len(fnArgs.history[2].ToolCalls) = 2

-----------------------------------------------------------------------------
(* Truncation applied twice (SpecTool). *)

(* C27: truncating a truncated output again with the same tool and limits
   gives the same text: the content the executor's output was turned into is
   a fixed point of TruncateToolOutput. *)
C27_TruncationIdempotent ==
    \A t \in Threads :
        (pc[t] = "tools" /\ Len(results[t]) = 1 /\ results[t][1] # Pending) =>
            LET toolName == toolCalls[t][1].Name
                once == results[t][1].Content
            IN  TruncateToolOutput(once, toolName, config.ToolOutputLimits,
                                   config.ToolLineLimits) = once

-----------------------------------------------------------------------------
(* Cancellation and the tool round. *)

(* C28: once the ctx of a Submit is cancelled, the tool round in progress is
   interrupted: no executor of that round runs to its own completion and
   hands back its output as a successful result. *)
C28_CancelInterruptsToolRound ==
    [][\A t \in Threads :
         (ctxDone[t] /\ pc[t] = "tools" /\ pc'[t] = "tools") =>
             \A i \in 1..Len(results[t]) :
                 (results[t][i] = Pending /\ results'[t][i] # Pending) =>
                     results'[t][i].IsError]_vars

-----------------------------------------------------------------------------
(* Properties of the child's environment (SpecEnv). *)

SameLetter(a, b) ==
    a = b \/ \E k \in 1..Len(LowerCase) : {a, b} = {LowerCase[k], UpperCase[k]}

EndsWithIgnoringCase(name, suffix) ==
    /\ Len(name) >= Len(suffix)
    /\ \A i \in 1..Len(suffix) :
           SameLetter(name[Len(name) - Len(suffix) + i], suffix[i])

SensitiveName(name) ==
    \E k \in 1..Len(sensitiveEnvPatterns) :
        EndsWithIgnoringCase(name, sensitiveEnvPatterns[k])

IsVariable(entry) == \E i \in 1..Len(entry) : entry[i] = "="

NameOf(entry) == SplitN2(entry)[1]

Inheritable(entry) ==
    IsVariable(entry)
    /\ (NameOf(entry) \in safeEnvVars \/ ~SensitiveName(NameOf(entry)))

Entries(q) == {q[i] : i \in 1..Len(q)}

(* C29 as stated: the child's environment holds no variable with a sensitive
   name outside the allow-list, and every non-sensitive variable of the
   process environment is kept. *)
C29_AsStated ==
    fnResult # <<>> =>
        /\ \A e \in Entries(fnResult[1]) :
               SensitiveName(NameOf(e)) => NameOf(e) \in safeEnvVars
        /\ \A e \in Entries(fnArgs.environ) :
               (IsVariable(e) /\ ~SensitiveName(NameOf(e))) => e \in Entries(fnResult[1])

(* C29: the child's environment is the variables of the process environment
   whose name is in the allow-list or has no sensitive suffix (compared
   without regard to case), all of them and in their order, followed by the
   caller's envVars as given, each once: a variable with a sensitive name is
   in the child's environment only when the caller passed it. *)
C29_ScrubbedThenOverlaid ==
    fnResult # <<>> =>
        LET child == fnResult[1]
            names == DOMAIN fnArgs.envVars
            n == Len(child) - Cardinality(names)
            inherited == SubSeq(child, 1, n)
            added == SubSeq(child, n + 1, Len(child))
        IN  /\ n >= 0
            /\ inherited = SelectSeq(fnArgs.environ, Inheritable)
            /\ Entries(added) = {k \o <<"=">> \o fnArgs.envVars[k] : k \in names}
            /\ \A e \in Entries(child) :
                   (SensitiveName(NameOf(e)) /\ NameOf(e) \notin safeEnvVars) =>
                       NameOf(e) \in names

(* A command ran with a lower-case secret in the process environment, which
   was dropped, next to a variable that was kept, and with a secret passed by
   the caller, which is in the child's environment. *)
C29_Witness ==
    /\ fnResult # <<>>
    /\ \E e \in Entries(fnArgs.environ) :
           /\ SensitiveName(NameOf(e)) /\ ToUpper(NameOf(e)) # NameOf(e)
           /\ e \notin Entries(fnResult[1])
    /\ \E e \in Entries(fnArgs.environ) : IsVariable(e) /\ e \in Entries(fnResult[1])
    /\ \E e \in Entries(fnResult[1]) : SensitiveName(NameOf(e))

-----------------------------------------------------------------------------
(* Properties of the shell tool's timeout (SpecShell). *)

Requested ==
    IF "timeout_ms" \in DOMAIN fnArgs.args /\ fnArgs.args.timeout_ms.type = "number"
    THEN fnArgs.args.timeout_ms.n
    ELSE 0

(* C30 as stated: the timeout passed to execCommand lies between the default
   and the maximum, whatever timeout_ms was requested. *)
C30_AsStated ==
    fnResult # <<>> =>
        fnArgs.defaultTimeoutMs <= fnResult[1] /\ fnResult[1] <= fnArgs.maxTimeoutMs

(* C30: with a default not above the maximum, the timeout passed to
   execCommand is the default when timeout_ms is absent, no number, zero or
   negative, the requested value when it is positive and not above the
   maximum (also when it is below the default), and the maximum when it is
   above; it is always positive and at most the maximum. *)
C30_TimeoutCapped ==
    fnResult # <<>> =>
        /\ 0 < fnResult[1] /\ fnResult[1] <= fnArgs.maxTimeoutMs
        /\ Requested <= 0 => fnResult[1] = fnArgs.defaultTimeoutMs
        /\ (0 < Requested /\ Requested <= fnArgs.maxTimeoutMs) => fnResult[1] = Requested
        /\ Requested > fnArgs.maxTimeoutMs => fnResult[1] = fnArgs.maxTimeoutMs

(* A call asked for a positive timeout below the default and got it. *)
C30_Witness ==
    /\ fnResult # <<>>
    /\ 0 < Requested /\ Requested < fnArgs.defaultTimeoutMs
    /\ fnResult[1] = Requested
    /\ fnArgs.defaultTimeoutMs < fnArgs.maxTimeoutMs

-----------------------------------------------------------------------------
(* Properties of the subagents (SpecSub). *)

SpawnReturned(err) ==
    /\ subRet' # subRet
    /\ subRet'.Tool = "Spawn"
    /\ subRet'.Err = err

(* C21: every handle's child session is one level deeper than the session
   whose manager made it and no deeper than the root's MaxSubagentDepth,
   which every manager inherits; a manager makes a handle only when its depth
   is below its maximum, and a Spawn on a manager at its maximum returns an
   error and creates nothing. *)
C21_DepthBounded ==
    /\ [](\A i \in 1..Len(subAgents) :
             /\ subAgents[i].Owner \in 0..(i - 1)
             /\ subAgents[i].Depth = Depth(subAgents[i].Owner) + 1
             /\ subAgents[i].MaxDepth = subMaxDepth
             /\ subAgents[i].Depth <= subMaxDepth
             /\ CanSpawn(i) <=> subAgents[i].Depth < subMaxDepth)
    /\ [][/\ Len(subAgents') > Len(subAgents) =>
               /\ Len(subAgents') = Len(subAgents) + 1
               /\ Depth(subAgents'[Len(subAgents')].Owner) < subMaxDepth
               /\ SpawnReturned(FALSE)
          /\ SpawnReturned(TRUE) =>
               /\ subAgents' = subAgents /\ subRegistry' = subRegistry
               /\ Depth(subRet'.Mgr) >= subMaxDepth
          /\ SpawnReturned(FALSE) => Len(subAgents') = Len(subAgents) + 1]_vars

(* A chain root, child, grandchild reaches the maximum depth 2, and a Spawn
   on the grandchild's manager was refused. *)
C21_Witness ==
    /\ subMaxDepth = 2
    /\ Len(subAgents) = 2
    /\ subAgents[2].Depth = 2 /\ subAgents[2].Owner = 1
    /\ subRet.Tool = "Spawn" /\ subRet.Err
    /\ subRet.Mgr = 2

IsChild(s) == s \in 1..Len(subAgents)

(* C22: with MaxSubagentDepth = 1 no subagent tool can be dispatched from a
   child's tool calls: no spawn_agent call of a child session returns a new
   subagent, and no wait or close_agent call of a child gets as far as a
   manager. *)
C22_ChildCannotSpawn ==
    subMaxDepth = 1 =>
        /\ (subRet.Tool = "Spawn" /\ ~subRet.Err) => ~IsChild(subRet.Caller)
        /\ \A w \in subWait : ~IsChild(w.Caller)

(* C23: a close that finds the status running leaves it failed, and a status
   that has left running never changes again, whatever the worker of the
   subagent does afterwards. *)
C23_ClosedStaysFailed ==
    [][\A i \in 1..Len(subAgents) :
          /\ (subAgents[i].Status = SubAgentRunning
               /\ subRet'.Tool = "close_agent" /\ ~subRet'.Err
               /\ subRet'.ID = i /\ subWait' # subWait)
                  => subAgents'[i].Status = SubAgentFailed
          /\ subAgents[i].Status # SubAgentRunning
                  => subAgents'[i].Status = subAgents[i].Status]_vars

PendingWait(d, i) == [Caller |-> d, Op |-> "wait", Agent |-> i] \in subWait

WaitReturned == subRet.Tool = "wait" /\ ~subRet.Err

(* C24 as stated: every report of the wait tool carries the status, which is
   not running, and a recorded result (turns used and output). *)
C24_AsStated ==
    WaitReturned => /\ subRet.Status # SubAgentRunning
                    /\ subRet.Result # NoResult

(* C24: the wait tool returns only in a step that finds the status not
   running, and reports that status with the result when the worker has
   recorded one (a subagent closed before that is reported by its status
   alone); spawn_agent returns with the new subagent running and its Submit
   still under way; a wait on an id unknown to the manager waits for nothing
   and returns an error; and a pending wait on a subagent whose Submit has
   terminated eventually returns (a session is inside one tool call at a
   time, so it has at most one wait pending). *)
C24_WaitReturnsWhenDone ==
    /\ [](/\ WaitReturned =>
                /\ subRet.Status # SubAgentRunning
                /\ subRet.Result # NoResult =>
                      subRet.Result = subAgents[subRet.ID].Result
          /\ (subRet.Tool = "wait" /\ subRet.Err) => subRet.Msg = "not found"
          /\ \A w \in subWait : w.Agent \in 1..Len(subAgents))
    /\ [][/\ \A w \in subWait \ subWait' :
                w.Op = "wait" =>
                   /\ subAgents[w.Agent].Status # SubAgentRunning
                   /\ subRet'.Tool = "wait" /\ ~subRet'.Err
                   /\ subRet'.Caller = w.Caller /\ subRet'.ID = w.Agent
                   /\ subRet'.Status = subAgents[w.Agent].Status
                   /\ subRet'.Result = subAgents[w.Agent].Result
          /\ \A w \in subWait' \ subWait : w.Agent \in Agents(subRegistry)
          /\ Len(subAgents') > Len(subAgents) =>
                /\ subAgents'[Len(subAgents')].Status = SubAgentRunning
                /\ subAgents'[Len(subAgents')].Worker = "submit"
                /\ subRet'.Tool = "Spawn" /\ ~subRet'.Err
                /\ subRet'.ID = Len(subAgents')
                /\ subWait' = subWait]_vars
    /\ \A d \in 0..MaxAgents :
          (\E i \in 1..Len(subAgents) :
               PendingWait(d, i) /\ subAgents[i].Worker # "submit")
              ~> (\A i \in 1..Len(subAgents) : ~PendingWait(d, i))

C24_Witness ==
    /\ WaitReturned
    /\ subRet.Status = SubAgentCompleted
    /\ subRet.Result # NoResult
    /\ subAgents[subRet.ID].Worker = "done"
    /\ ~PendingWait(subRet.Caller, subRet.ID)

(* C31: a spawn_agent call with max_turns = n > 0 creates a child session
   whose MaxTurns is n; the default of 50 applies only when max_turns is
   absent or not positive. *)
C31_MaxTurnsIsTurnLimit ==
    (fnResult # <<>> /\ ~fnResult[1].Err) =>
        LET args == fnArgs.args
            requested == "max_turns" \in DOMAIN args
                         /\ args.max_turns.type = "number"
                         /\ args.max_turns.n > 0
        IN  fnResult[1].Config.MaxTurns =
                IF requested THEN args.max_turns.n ELSE SubagentMaxTurns

RetryDone == retry.pc = "done"
Outs == retry.outs
AllRetryable == \A k \in 1..Len(Outs) : Outs[k] # FnOK /\ IsRetryable(Outs[k])
RetryAfterTooLong(e) ==
    e.Type = "RateLimitError" /\ e.RetryAfter # -1 /\ e.RetryAfter > fnArgs.MaxDelay

(* C32 as stated: at most 1 + MaxRetries calls, and a Retry all of whose
   calls failed with retryable errors and that was not cancelled made exactly
   1 + MaxRetries calls and returned the last error. *)
C32_AsStated ==
    /\ retry.calls <= 1 + fnArgs.MaxRetries
    /\ (RetryDone /\ AllRetryable /\ retry.ret.Kind = "error")
           => /\ retry.calls = 1 + fnArgs.MaxRetries
              /\ retry.ret.Err = Outs[Len(Outs)]

(* C32: for MaxRetries >= 0, Retry calls fn at most 1 + MaxRetries times; it
   returns the first success without further calls; it makes no call after a
   non-retryable error, nor after a rate limit error whose Retry-After
   exceeds MaxDelay while retries are left, and returns that error; when it
   returns an error of fn after fewer than 1 + MaxRetries calls, that error is
   of one of these two kinds; otherwise it made exactly 1 + MaxRetries calls
   and returns the last error; a goroutine woken from the back-off wait by
   the cancellation returns the cancellation error without calling fn
   again. *)
C32_RetryBounded ==
    /\ [](/\ retry.calls = Len(Outs)
          /\ retry.calls <= 1 + fnArgs.MaxRetries
          /\ \A k \in 1..Len(Outs) :
                /\ Outs[k] = FnOK =>
                      /\ k = Len(Outs)
                      /\ RetryDone /\ retry.ret.Kind = "result"
                /\ (Outs[k] # FnOK /\ ~IsRetryable(Outs[k])) =>
                      /\ k = Len(Outs)
                      /\ retry.pc \in {"loop", "done"}
                      /\ RetryDone => retry.ret = RetryReturn("error", Outs[k])
                /\ (RetryAfterTooLong(Outs[k]) /\ k < 1 + fnArgs.MaxRetries) =>
                      /\ k = Len(Outs)
                      /\ retry.pc \in {"loop", "done"}
                      /\ RetryDone => retry.ret = RetryReturn("error", Outs[k])
          /\ (RetryDone /\ retry.ret.Kind = "result") =>
                Outs[Len(Outs)] = FnOK
          /\ (RetryDone /\ retry.ret.Kind = "error") =>
                /\ retry.ret.Err = Outs[Len(Outs)]
                /\ \/ retry.calls = 1 + fnArgs.MaxRetries
                   \/ ~IsRetryable(retry.ret.Err)
                   \/ RetryAfterTooLong(retry.ret.Err)
          /\ (RetryDone /\ retry.ret.Kind = "request cancelled during retry") =>
                /\ retry.ctxDone
                /\ retry.calls < 1 + fnArgs.MaxRetries)
    /\ [][/\ retry.pc = "cancelled" =>
                /\ retry'.calls = retry.calls
                /\ retry'.pc = "done"
                /\ retry'.ret.Kind = "request cancelled during retry"
          /\ (retry.pc = "wait" /\ retry'.ctxDone) => retry'.pc = "cancelled"
          /\ RetryDone => retry' = retry]_vars

C32_Witness ==
    /\ RetryDone
    /\ fnArgs.MaxRetries = 2
    /\ retry.calls = 3
    /\ AllRetryable
    /\ retry.ret = RetryReturn("error", Outs[3])
    /\ \E k \in 1..2 : Outs[k].Type = "RateLimitError" /\ Outs[k].RetryAfter = fnArgs.MaxDelay

(* The drain of goroutine t has appended some of its messages and not yet
   the rest. *)
MidDrain(t) ==
    /\ pc[t] = "inject"
    /\ messages[t] # <<>>
    /\ history # <<>>
    /\ history[Len(history)].Kind = TurnSteering

(* C33: steering injection is atomic: no History() snapshot shows only part
   of a drained batch. *)
C33_SteeringInjectionAtomic ==
    \A t \in Threads : MidDrain(t) => snap # history

InCall(g) == At(g).op \in {"Complete", "Executor"}

(* C34: Session.mu is never held by a goroutine that is inside a Completer
   call or a tool executor, and whoever holds it is at its Unlock, with no
   blocking call before it; so while a call is in progress the mutex is free
   or about to be released by a goroutine that is not in a call, and Steer,
   FollowUp, Abort, State, History and SetReasoningEffort take it without
   waiting for the call to finish. *)
C34_MutexNotHeldAcrossCalls ==
    /\ mu \in Goroutines \cup {MuFree}
    /\ \A g \in Goroutines :
          /\ InCall(g) => mu # g
          /\ mu = g <=> At(g).op = "Unlock"
    /\ (InCall("Submit") /\ mu = MuFree /\ At("host").op = "Lock")
           => ENABLED MuLock("host")

C34_Witness ==
    /\ muPc["Submit"] = <<"processInput", 278>>
    /\ mu = "host"
    /\ muPc["host"] = <<"Steer", 132>>

(* Every Assistant turn with tool calls that is not the last turn is followed
   at once by the ToolResults turn of its calls. *)
ToolCallsPaired ==
    \A k \in 1..(Len(history) - 1) :
        (history[k].Kind = TurnAssistant /\ history[k].ToolCalls # <<>>)
            => /\ history[k + 1].Kind = TurnToolResults
               /\ Len(history[k + 1].Results) = Len(history[k].ToolCalls)

(* C35: at most one per-input loop runs on a session at a time, and under
   concurrent Submit calls every Assistant turn with tool calls is still
   followed directly by its ToolResults turn. *)
C35_OneLoopAtATime ==
    /\ ToolCallsPaired
    /\ \A t \in Submitters, u \in Submitters :
          t # u => (pc[t] = "idle" \/ pc[u] = "idle")

(* Close has returned: its second half has closed the emitter. *)
CloseReturned == emClosed /\ closePc = "idle"

(* C36: after Close has returned, a Submit that was running starts no further
   Completer call and appends no further turn, and a Submit called then
   returns the closed-session error and leaves history, queues and state as
   they were. *)
C36_CloseIsTerminal ==
    [][CloseReturned =>
          /\ nComplete' = nComplete
          /\ history' = history
          /\ \A t \in Threads :
                (pc[t] = "idle" /\ nSubmit' # nSubmit) =>
                   /\ ret'[t] = RetClosed
                   /\ pc'[t] = "idle"
                   /\ <<state, steeringQueue, followupQueue>>' =
                          <<state, steeringQueue, followupQueue>>]_vars

(* Thread t stands where an abort flag that is set ends its Submit without a
   further Completer call: before the flag is read (the User turn, the drains,
   the loop-detection step, the limit check, the exit with its follow-up
   dequeue), or past the read with the copy set. *)
UnderAbort(t) ==
    /\ abortSignaled
    /\ \/ pc[t] \in {"append_user", "drain", "inject", "loop_detect", "loop_warn",
                     "check", "exit"}
       \/ pc[t] = "check_turns" /\ aborted[t]

(* C37: the abort flag is cleared at the entry of an accepted Submit and by no
   other step, so an Abort issued with no Submit in flight is gone when the
   next Submit runs its loop; an Abort issued during a Submit stays set until
   that Submit returns, and every follow-up it dequeues under the flag gets
   its User turn and no Completer call. *)
C37_AbortClearedAtSubmitEntry ==
    [][\A t \in Threads :
          /\ (pc[t] = "idle" /\ pc'[t] = "append_user") => ~abortSignaled'
          /\ (abortSignaled /\ ~abortSignaled')
                => pc[t] = "idle" /\ pc'[t] = "append_user" /\ nSubmit' = nSubmit + 1
          /\ (~abortSignaled /\ abortSignaled') => pc' = pc /\ nHost' = nHost + 1
          /\ (pc[t] = "check" /\ pc'[t] # "check") => aborted'[t] = abortSignaled
          /\ UnderAbort(t) =>
                /\ UnderAbort(t)' \/ (pc'[t] = "idle" /\ ret'[t] = RetNil)
                /\ nComplete' = nComplete
                /\ (pc[t] = "exit" /\ pc'[t] = "append_user")
                      => /\ userInput'[t] = Head(followupQueue)
                         /\ followupQueue' = Tail(followupQueue)
                /\ (pc[t] = "append_user" /\ pc'[t] # "append_user")
                      => history' = Append(history, NewUserTurn(userInput[t]))]_vars

(* C37's case: Abort came during the tool round of a Submit; the loop left on
   the abort check after the ToolResults turn (no limit was hit), the Submit
   dequeued a follow-up under the flag, appended its User turn, called the
   Completer no more and returned nil with the flag still set. *)
C37_Witness ==
    /\ Returned(1) /\ ret[1] = RetNil
    /\ abortSignaled /\ why[1] = "abort"
    /\ limitsHit[1] = {}
    /\ nComplete = 1
    /\ Len(history) = 4
    /\ history[3].Kind = TurnToolResults
    /\ history[4] = NewUserTurn(FollowUpText(1))

(* C38: an agent id that spawn_agent returned to a session is found by that
   session's wait and close_agent calls with that id, whatever the depth
   limit and whatever child sessions were made on the shared profile.  Here:
   the call that follows the spawn. *)
C38_SpawnedIdResolvable ==
    [][(subRet.Tool = "Spawn" /\ ~subRet.Err /\ subRet.Caller \in Sessions)
          => ~(/\ subRet'.Caller = subRet.Caller
               /\ subRet'.Tool \in {"wait", "close_agent"}
               /\ subRet'.ID = subRet.ID
               /\ subRet'.Err /\ subRet'.Msg = "not found")]_vars

(* The goroutines g waits for at a lock: the writer that holds or awaits the
   lock, and for a Lock the readers as well. *)
RegWaiting(g) == reg.pc[g] # <<>> /\ RegAt(g).op \in {"RLock", "Lock"}

RegBlockers(g) ==
    ({RegMu(g).writer} \ {NoOne, g})
    \cup (IF RegAt(g).op = "Lock" THEN RegMu(g).readers ELSE {})

(* Every goroutine of S waits at a lock for a goroutine of S: none of them
   ever moves again. *)
RegDeadlocked(S) ==
    /\ S # {}
    /\ \A g \in S : RegWaiting(g) /\ RegBlockers(g) \cap S # {}

(* C39: registry calls never deadlock: in no state is there a set of
   goroutines that wait for each other's registry locks, so every MergeFrom
   in progress can still come to its end; this covers a.MergeFrom(b) next to
   b.MergeFrom(a) and the self-merge r.MergeFrom(r). *)
C39_MergeFromTerminates ==
    \A S \in SUBSET RegGoroutines : ~RegDeadlocked(S)

(* C40: loop detection never faults: for every history and every window,
   zero and negative windows included, DetectLoop returns a boolean and the
   loop-detection step of the tool round completes, with the history it was
   given and at most the warning added. *)
C40_LoopDetectionNeverFaults ==
    fnResult # <<>> =>
        /\ ~fnResult[1].panic
        /\ fnResult[1].history \in
              {fnArgs.history, Append(fnArgs.history, NewSteeringTurn(LoopWarning))}

====
